---- MODULE Spec2Model ----
(***************************************************************************)
(* Trivia card generator: CSV loading (card_generator_v2.py), the two      *)
(* render_pdf functions (card_generator_v2.py and card_generator.py) and   *)
(* the /api/generate handler (app.py).                                     *)
(*                                                                         *)
(* Strings are sequences of one-character strings, so that _clean is the   *)
(* real strip-and-replace and not the identity.                            *)
(***************************************************************************)
EXTENDS Integers, Sequences, FiniteSets, TLC

----------------------------------------------------------------------------
(* Bounds of the model                                                     *)

MaxInputRows == 12
MaxDefects == 2
MaxCards == 5
MaxGrid == 3

----------------------------------------------------------------------------
(* Text helpers                                                            *)

BOM == "BOM"

Whitespace == {" ", "\t"}

Min(a, b) == IF a <= b THEN a ELSE b

RECURSIVE LStrip(_)
LStrip(s) ==
    IF s # <<>> /\ Head(s) \in Whitespace THEN LStrip(Tail(s)) ELSE s

RECURSIVE RStrip(_)
RStrip(s) ==
    IF s # <<>> /\ s[Len(s)] \in Whitespace
    THEN RStrip(SubSeq(s, 1, Len(s) - 1))
    ELSE s

Strip(s) == RStrip(LStrip(s))

Replace(s, old) == SelectSeq(s, LAMBDA ch : ch # old)

\* (s or "").strip().replace(BOM, ""); a field is never None here.
_clean(s) == Replace(Strip(s), BOM)

----------------------------------------------------------------------------
(* Measured text and wrap_text (the same code in both generators)          *)

\* Glyph widths in thousandths of the font size, as pdfmetrics keeps them
CharWidth(ch) ==
    CASE ch = " " -> 250
      [] ch = "\t" -> 250
      [] ch = "i" -> 250
      [] ch = "W" -> 1000
      [] OTHER -> 500

\* Exact fractions num / den with den > 0, for the float arithmetic
Frac(n, d) == [num |-> n, den |-> d]

FracMinusInt(f, k) == Frac(f.num - k * f.den, f.den)

RECURSIVE SumWidths(_)
SumWidths(text) ==
    IF text = <<>> THEN 0 ELSE CharWidth(Head(text)) + SumWidths(Tail(text))

\* _string_width(text, font, size) <= max_width
WidthFits(text, font, size, max_width) ==
    SumWidths(text) * size * max_width.den <= 1000 * max_width.num

\* text.split()
RECURSIVE SplitWords(_, _, _)
SplitWords(text, cur, out) ==
    IF text = <<>>
    THEN IF cur = <<>> THEN out ELSE Append(out, cur)
    ELSE IF Head(text) \in Whitespace
         THEN SplitWords(Tail(text), <<>>,
                         IF cur = <<>> THEN out ELSE Append(out, cur))
         ELSE SplitWords(Tail(text), Append(cur, Head(text)), out)

split(text) == SplitWords(text, <<>>, <<>>)

\* Mutant of GreedyLines: a line that is full is not kept.
RECURSIVE GreedyLines_DropLine(_, _, _, _, _, _)
GreedyLines_DropLine(words, current, lines, font, size, max_width) ==
    IF words = <<>>
    THEN Append(lines, current)
    ELSE LET candidate == current \o <<" ">> \o Head(words)
         IN  IF WidthFits(candidate, font, size, max_width)
             THEN GreedyLines_DropLine(Tail(words), candidate, lines,
                                       font, size, max_width)
             ELSE GreedyLines_DropLine(Tail(words), Head(words),
                                       lines, font, size, max_width)

\* The greedy loop over words[1:]
RECURSIVE GreedyLines(_, _, _, _, _, _)
GreedyLines(words, current, lines, font, size, max_width) ==
    IF words = <<>>
    THEN Append(lines, current)
    ELSE LET candidate == current \o <<" ">> \o Head(words)
         IN  IF WidthFits(candidate, font, size, max_width)
             THEN GreedyLines(Tail(words), candidate, lines,
                              font, size, max_width)
             ELSE GreedyLines(Tail(words), Head(words),
                              Append(lines, current), font, size, max_width)

\* The character loop that hard-splits one over-wide line
RECURSIVE HardSplit(_, _, _, _, _, _)
HardSplit(line, chunk, fixed, font, size, max_width) ==
    IF line = <<>>
    THEN IF chunk # <<>> THEN Append(fixed, chunk) ELSE fixed
    ELSE LET cand == Append(chunk, Head(line))
         IN  IF WidthFits(cand, font, size, max_width)
             THEN HardSplit(Tail(line), cand, fixed, font, size, max_width)
             ELSE HardSplit(Tail(line), <<Head(line)>>,
                            IF chunk # <<>> THEN Append(fixed, chunk)
                                            ELSE fixed,
                            font, size, max_width)

\* Mutant of FixLines: lines that are too wide are kept as they are.
FixLines_Keep(lines, fixed, font, size, max_width) == fixed \o lines

\* The loop over the lines that hard-splits the over-wide ones
RECURSIVE FixLines(_, _, _, _, _)
FixLines(lines, fixed, font, size, max_width) ==
    IF lines = <<>>
    THEN fixed
    ELSE IF WidthFits(Head(lines), font, size, max_width)
         THEN FixLines(Tail(lines), Append(fixed, Head(lines)),
                       font, size, max_width)
         ELSE FixLines(Tail(lines),
                       HardSplit(Head(lines), <<>>, fixed,
                                 font, size, max_width),
                       font, size, max_width)

wrap_text(text, font, size, max_width) ==
    LET words == split(text)
    IN  IF words = <<>>
        THEN << <<>> >>
        ELSE FixLines(GreedyLines(Tail(words), Head(words), <<>>,
                                  font, size, max_width),
                      <<>>, font, size, max_width)

----------------------------------------------------------------------------
(* Records                                                                 *)

Question(subject, text, answer) ==
    [subject |-> subject, text |-> text, answer |-> answer]

Card(level, questions) == [level |-> level, questions |-> questions]

QuestionsPerCard == 6

----------------------------------------------------------------------------
(* load_cards_from_csv                                                     *)

\* level_groups is a dict: a sequence of (key, value) in insertion order.
HasKey(groups, level) == \E g \in 1..Len(groups) : groups[g].level = level

\* Mutant of AppendToGroup: a new level goes to the front of the dict.
AppendToGroup_NewFirst(groups, level, q) ==
    LET withKey == IF HasKey(groups, level)
                   THEN groups
                   ELSE <<[level |-> level, questions |-> <<>>]>> \o groups
    IN  [g \in 1..Len(withKey) |->
            IF withKey[g].level = level
            THEN [withKey[g] EXCEPT !.questions = Append(@, q)]
            ELSE withKey[g]]

\* if level not in level_groups: level_groups[level] = [];
\* level_groups[level].append(q)
AppendToGroup(groups, level, q) ==
    LET withKey == IF HasKey(groups, level)
                   THEN groups
                   ELSE Append(groups, [level |-> level, questions |-> <<>>])
    IN  [g \in 1..Len(withKey) |->
            IF withKey[g].level = level
            THEN [withKey[g] EXCEPT !.questions = Append(@, q)]
            ELSE withKey[g]]

\* Mutant of SubjectMissing: the test is never true.
SubjectMissing_Never(subject) == FALSE

\* if not subject
SubjectMissing(subject) == subject = <<>>

\* The first loop: group by level, raising on an empty subject.
RECURSIVE GroupRows(_, _, _)
GroupRows(rs, k, groups) ==
    IF k > Len(rs)
    THEN [raised |-> FALSE, groups |-> groups]
    ELSE LET level == _clean(rs[k].level)
             subject == _clean(rs[k].subject)
             question == _clean(rs[k].question)
             answer == _clean(rs[k].answer)
         IN  IF SubjectMissing(subject)
             THEN [raised |-> TRUE, groups |-> groups]
             ELSE GroupRows(rs, k + 1,
                            AppendToGroup(groups, level,
                                          Question(subject, question, answer)))

Count(seq, x) == Cardinality({k \in 1..Len(seq) : seq[k] = x})

SetOf(seq) == {seq[k] : k \in 1..Len(seq)}

LoadOk(out) ==
    [kind |-> "ok", cards |-> out, level |-> <<>>, card |-> 0,
     count |-> 0, dups |-> {}]

LoadError(kind, level, card, count, dups) ==
    [kind |-> kind, cards |-> <<>>, level |-> level, card |-> card,
     count |-> count, dups |-> dups]

\* Mutant of ChunkAt: the slice is one question short.
ChunkAt_Short(questions, start) ==
    SubSeq(questions, start + 1,
           Min(start + QuestionsPerCard - 1, Len(questions)))

\* questions[i:i+6]
ChunkAt(questions, start) ==
    SubSeq(questions, start + 1,
           Min(start + QuestionsPerCard, Len(questions)))

\* Mutant of IsIncomplete: the length test is off by one.
IsIncomplete_OffByOne(card_questions) ==
    Len(card_questions) < QuestionsPerCard - 1

\* len(card_questions) < 6
IsIncomplete(card_questions) == Len(card_questions) < QuestionsPerCard

\* Mutant of CardNumber: the chunk index is reported as it is, from 0.
CardNumber_ZeroBased(start) == start \div QuestionsPerCard

\* i//6 + 1, the card number the error messages print
CardNumber(start) == (start \div QuestionsPerCard) + 1

\* len(card_subjects) != len(set(card_subjects))
HasDuplicates(card_subjects) ==
    Len(card_subjects) # Cardinality(SetOf(card_subjects))

\* Mutant of DuplicateSet: the count filter is lost.
DuplicateSet_Unfiltered(card_subjects) == SetOf(card_subjects)

\* set([s for s in card_subjects if card_subjects.count(s) > 1])
DuplicateSet(card_subjects) ==
    SetOf(SelectSeq(card_subjects, LAMBDA s : Count(card_subjects, s) > 1))

\* Mutant of MakeCards: duplicate subjects are looked for before the
\* length of the chunk.
RECURSIVE MakeCards_DuplicatesFirst(_, _, _, _)
MakeCards_DuplicatesFirst(groups, g, start, out) ==
    IF g > Len(groups)
    THEN LoadOk(out)
    ELSE LET level == groups[g].level
             questions == groups[g].questions
         IN  IF start >= Len(questions)
             THEN MakeCards_DuplicatesFirst(groups, g + 1, 0, out)
             ELSE LET card_questions == ChunkAt(questions, start)
                      card_subjects ==
                          [k \in 1..Len(card_questions) |->
                              card_questions[k].subject]
                  IN  IF HasDuplicates(card_subjects)
                      THEN LoadError("Duplicate", level, CardNumber(start),
                                     0, DuplicateSet(card_subjects))
                      ELSE IF IsIncomplete(card_questions)
                      THEN LoadError("Incomplete", level, CardNumber(start),
                                     Len(card_questions), {})
                      ELSE MakeCards_DuplicatesFirst(
                               groups, g, start + QuestionsPerCard,
                               Append(out, Card(level, card_questions)))

\* The second loop: for each level in dict order, for i in range(0, len, 6).
RECURSIVE MakeCards(_, _, _, _)
MakeCards(groups, g, start, out) ==
    IF g > Len(groups)
    THEN LoadOk(out)
    ELSE LET level == groups[g].level
             questions == groups[g].questions
         IN  IF start >= Len(questions)
             THEN MakeCards(groups, g + 1, 0, out)
             ELSE LET card_questions == ChunkAt(questions, start)
                      card_subjects ==
                          [k \in 1..Len(card_questions) |->
                              card_questions[k].subject]
                  IN  IF IsIncomplete(card_questions)
                      THEN LoadError("Incomplete", level, CardNumber(start),
                                     Len(card_questions), {})
                      ELSE IF HasDuplicates(card_subjects)
                      THEN LoadError("Duplicate", level, CardNumber(start),
                                     0, DuplicateSet(card_subjects))
                      ELSE MakeCards(groups, g, start + QuestionsPerCard,
                                     Append(out,
                                            Card(level, card_questions)))

load_cards_from_csv(rs) ==
    LET grouped == GroupRows(rs, 1, <<>>)
    IN  IF grouped.raised
        THEN LoadError("EmptySubject", <<>>, 0, 0, {})
        ELSE MakeCards(grouped.groups, 1, 0, <<>>)

----------------------------------------------------------------------------
(* Layout configuration and the print-mode arithmetic                      *)

\* LayoutConfig(): cols = 2, rows = 4
DefaultCols == 2

DefaultRows == 4

\* The fields of LayoutConfig that the model reads. Lengths are in a scaled
\* unit (a page of 40 x 60 with margin 2 and gutters 1 and 2) and the character
\* ceilings are scaled with them, so that short texts wrap and overflow.
LayoutConfig(c, r) ==
    [cols |-> c, rows |-> r,
     page_w |-> 40, page_h |-> 60,
     margin |-> 2, gutter_x |-> 1, gutter_y |-> 2,
     padding |-> 1, header_height |-> 2,
     badge_w |-> 2, badge_margin |-> 1,
     font_name |-> "Helvetica", font_size_body |-> 4,
     max_chars_question |-> 8, max_chars_answer |-> 8,
     max_chars_level |-> 2, max_chars_subject |-> 1]

\* Mutant of grid_geometry: a gutter is counted for every column and row.
grid_geometry_GutterPerCell(config) ==
    LET total_gutter_x == config.gutter_x * config.cols
        total_gutter_y == config.gutter_y * config.rows
        usable_w == config.page_w - 2 * config.margin - total_gutter_x
        usable_h == config.page_h - 2 * config.margin - total_gutter_y
    IN  [page_w |-> config.page_w, page_h |-> config.page_h,
         card_w |-> Frac(usable_w, config.cols),
         card_h |-> Frac(usable_h, config.rows)]

\* grid_geometry(cfg); card_w and card_h are exact fractions
grid_geometry(config) ==
    LET total_gutter_x == config.gutter_x * (config.cols - 1)
        total_gutter_y == config.gutter_y * (config.rows - 1)
        usable_w == config.page_w - 2 * config.margin - total_gutter_x
        usable_h == config.page_h - 2 * config.margin - total_gutter_y
    IN  [page_w |-> config.page_w, page_h |-> config.page_h,
         card_w |-> Frac(usable_w, config.cols),
         card_h |-> Frac(usable_h, config.rows)]

\* Mutant of iter_positions: the slots are taken column by column.
iter_positions_ColumnMajor(config) ==
    [k \in 1..(config.cols * config.rows) |->
        [col |-> (k - 1) \div config.rows, row |-> (k - 1) % config.rows]]

\* Mutant of card_xy: the gutters between the cells are left out.
card_xy_NoGutter(config, col, row) ==
    LET g == grid_geometry(config)
    IN  [x |-> Frac(config.margin * g.card_w.den + col * g.card_w.num,
                    g.card_w.den),
         y |-> Frac((g.page_h - config.margin) * g.card_h.den
                        - (row + 1) * g.card_h.num,
                    g.card_h.den)]

\* card_xy(col, row): x = margin + col * (card_w + gutter_x),
\* y = page_h - margin - (row + 1) * card_h - row * gutter_y
card_xy(config, col, row) ==
    LET g == grid_geometry(config)
    IN  [x |-> Frac(config.margin * g.card_w.den
                        + col * (g.card_w.num
                                    + config.gutter_x * g.card_w.den),
                    g.card_w.den),
         y |-> Frac((g.page_h - config.margin - row * config.gutter_y)
                        * g.card_h.den
                        - (row + 1) * g.card_h.num,
                    g.card_h.den)]

\* iter_positions: [(col, row) for row in range(rows) for col in range(cols)]
iter_positions(config) ==
    [k \in 1..(config.cols * config.rows) |->
        [col |-> (k - 1) % config.cols, row |-> (k - 1) \div config.cols]]

\* Mutant of mirrored_row: the row is not reversed.
mirrored_row_Same(config, row) == row

\* mirrored_row = (cfg.rows - 1) - row      (card_generator_v2.py)
mirrored_row(config, row) == (config.rows - 1) - row

\* Mutant of mirrored_col: the reversal is off by one.
mirrored_col_OffByOne(config, col) == config.cols - col

\* mirrored_col = (cfg.cols - 1) - col      (card_generator.py)
mirrored_col(config, col) == (config.cols - 1) - col

\* Mutant of rotate_180: a quarter turn.
rotate_180_Quarter(angle) == (angle + 90) % 360

\* c.rotate(180) applied to a transform whose rotation is angle
rotate_180(angle) == (angle + 180) % 360

----------------------------------------------------------------------------
(* State                                                                   *)

VARIABLES
    csv_rows,     \* the rows csv.DictReader yields (raw fields)
    result,       \* what load_cards_from_csv returned or raised
    cfg,          \* the LayoutConfig passed to render_pdf
    impl,         \* which render_pdf runs: "v2" or "legacy"
    cards,        \* render_pdf's cards argument
    pc,           \* position in the program
    batch_start,  \* render_pdf's outer loop variable
    idx,          \* render_pdf's inner loop variable i
    canvas,       \* the reportlab canvas: finished pages, current page, saved
    error,        \* the exception render_pdf raised, if any
    req,          \* the /api/generate request being handled and its response
    files,        \* the temporary files that exist
    csv_file,     \* the lines of the CSV file, each a list of cells
    has_header,   \* what csv.Sniffer().has_header said of the file
    wrap_in,      \* the arguments of a call of wrap_text
    wrap_out,     \* the lines the call returned
    requests,     \* the requests a server is handling, each with its locals
    tmpdir        \* the files of tempfile.gettempdir(), by path

vars ==
    <<csv_rows, result, cfg, impl, cards, pc, batch_start, idx, canvas, error,
      req, files, csv_file, has_header, wrap_in, wrap_out, requests, tmpdir>>

NoText ==
    [text |-> <<>>, font |-> "Helvetica", size |-> 0, max_width |-> Frac(0, 1)]

\* A directory without files
EmptyDir == [path \in {} |-> <<>>]

NoRequest ==
    [upload |-> "none", print_mode |-> "none", pc |-> "none",
     exception |-> "none", status |-> 0, document |-> <<>>]

NoError == [kind |-> "none", row |-> 0, field |-> "none"]

ValueError(kind, row, field) == [kind |-> kind, row |-> row, field |-> field]

NotRun ==
    [kind |-> "none", cards |-> <<>>, level |-> <<>>, card |-> 0,
     count |-> 0, dups |-> {}]

\* A canvas: the finished pages, the page being drawn, whether the file
\* was written, the stack of saved graphics states and the rotation of the
\* current transform
NoCanvas ==
    [pages |-> <<>>, page |-> <<>>, saved |-> FALSE, stack |-> <<>>,
     rot |-> 0]

\* canvas.Canvas(str(out_pdf), pagesize=cfg.page_size)
NewCanvas ==
    [pages |-> <<>>, page |-> <<>>, saved |-> FALSE, stack |-> <<>>,
     rot |-> 0]

\* c.saveState()
saveState(c) == [c EXCEPT !.stack = Append(@, c.rot)]

\* Mutant of restoreState: the saved state is not taken back.
restoreState_Kept(c) == c

\* c.restoreState()
restoreState(c) ==
    [c EXCEPT !.rot = c.stack[Len(c.stack)],
              !.stack = SubSeq(@, 1, Len(@) - 1)]

\* c.translate(cx, cy); c.rotate(180); c.translate(-cx, -cy)
rotate(c) == [c EXCEPT !.rot = rotate_180(@)]

\* c.showPage()
showPage(c) == [c EXCEPT !.pages = Append(@, c.page), !.page = <<>>]

\* c.save()
save(c) == [c EXCEPT !.saved = TRUE]

\* One card drawn on the current page: which side, which card of the list
\* (1-based), the grid slot whose card_xy it is drawn at and that (x, y),
\* the rotation in force while it is drawn, the slot whose centre the
\* rotation is about and the rows drawn inside the card.
DrawOp(side, n, col, row, xy, rot, marks) ==
    [side |-> side, card |-> n, col |-> col, row |-> row, at |-> xy,
     rot |-> rot, about |-> [col |-> col, row |-> row], marks |-> marks]

\* POSITION_COLORS, by position 1..6
POSITION_COLORS ==
    <<"#FFD700", "#228B22", "#FF69B4", "#8B4513", "#0066CC", "#FF8C00">>

\* text_width = card_w - 2 * cfg.padding - cfg.badge_w - cfg.badge_margin
text_width(config) ==
    FracMinusInt(grid_geometry(config).card_w,
                 2 * config.padding + config.badge_w + config.badge_margin)

\* Mutant of IsSkipped: no row is skipped.
IsSkipped_Never(text) == FALSE

\* if not q.text: continue        (if not q.answer: continue)
IsSkipped(text) == text = <<>>

\* Mutant of FirstTwo: all lines are kept.
FirstTwo_All(lines) == lines

\* lines[:2]
FirstTwo(lines) == SubSeq(lines, 1, Min(2, Len(lines)))

\* for i, q in enumerate(card.questions): the rows drawn, each with the
\* multiple i of the row height its badge is placed at (q_y = start - i *
\* question_height), the colour and the text of its badge and its lines
RECURSIVE DrawRows(_, _, _, _, _)
DrawRows(questions, i, side, config, out) ==
    IF i >= Len(questions)
    THEN out
    ELSE LET q == questions[i + 1]
             text == IF side = "questions" THEN q.text ELSE q.answer
         IN  IF IsSkipped(text)
             THEN DrawRows(questions, i + 1, side, config, out)
             ELSE DrawRows(questions, i + 1, side, config,
                      Append(out,
                             [band |-> i,
                              color |-> POSITION_COLORS[i + 1],
                              subject |-> q.subject,
                              lines |->
                                  FirstTwo(wrap_text(text, config.font_name,
                                                     config.font_size_body,
                                                     text_width(config)))]))

\* draw_card_questions(c, x, y, card_w, card_h, card, cfg) with
\* (x, y) = card_xy(col, row); n is the place of the card in the list
draw_card_questions(c, n, col, row, card, config) ==
    [c EXCEPT !.page =
        Append(@, DrawOp("questions", n, col, row,
                         card_xy(config, col, row), c.rot,
                         DrawRows(card.questions, 0, "questions", config,
                                  <<>>)))]

\* Mutant of draw_card_answers: every card is drawn at the first slot.
draw_card_answers_FirstSlot(c, n, col, row, card, config, rotate_180_) ==
    [c EXCEPT !.page =
        Append(@, DrawOp("answers", n, 0, 0, card_xy(config, 0, 0),
                         rotate_180(c.rot),
                         DrawRows(card.questions, 0, "answers", config,
                                  <<>>)))]

\* draw_card_answers(c, x, y, card_w, card_h, card, cfg, rotate_180) with
\* (x, y) = card_xy(col, row): saveState, translate to the centre of the
\* card at (x, y), rotate, translate back; draw; restoreState
draw_card_answers(c, n, col, row, card, config, rotate_180_) ==
    LET turned == IF rotate_180_ THEN rotate(saveState(c)) ELSE c
        drawn == [turned EXCEPT !.page =
                     Append(@, DrawOp("answers", n, col, row,
                                      card_xy(config, col, row), turned.rot,
                                      DrawRows(card.questions, 0, "answers",
                                               config, <<>>)))]
    IN  IF rotate_180_ THEN restoreState(drawn) ELSE drawn

\* Mutant of BatchSize: a sheet is taken to hold one row of cards only.
BatchSize_OneRow(config) == config.cols

\* cfg.cols * cfg.rows, the step of the batch loop and the batch length
BatchSize(config) == config.cols * config.rows

\* cards[batch_start : batch_start + cols * rows], as the indices it holds
BatchLen ==
    Min(batch_start + BatchSize(cfg), Len(cards)) - batch_start

----------------------------------------------------------------------------
(* card_generator_v2.render_pdf                                            *)

\* lines 322-334: geometry, positions, a fresh canvas
RenderStart ==
    /\ pc = "render"
    /\ impl = "v2"
    /\ canvas' = NewCanvas
    /\ batch_start' = 0
    /\ idx' = 0
    /\ pc' = "batch"
    /\ UNCHANGED <<requests, tmpdir,
                   wrap_in, wrap_out, csv_file, has_header,
                   req, files, csv_rows, result, cfg, impl, cards, error>>

\* for batch_start in range(0, len(cards), cols * rows): next iteration
NextBatch ==
    /\ pc = "batch"
    /\ batch_start < Len(cards)
    /\ idx' = 0
    /\ pc' = "front"
    /\ UNCHANGED <<requests, tmpdir,
                   wrap_in, wrap_out, csv_file, has_header,
                   req, files, csv_rows, result, cfg,
                   impl, cards, batch_start, canvas, error>>

\* front page loop body
DrawFront ==
    /\ pc = "front"
    /\ impl = "v2"
    /\ idx < BatchLen
    /\ LET pos == iter_positions(cfg)[idx + 1]
       IN  canvas' = draw_card_questions(canvas, batch_start + idx + 1,
                                         pos.col, pos.row,
                                         cards[batch_start + idx + 1], cfg)
    /\ idx' = idx + 1
    /\ UNCHANGED <<requests, tmpdir,
                   wrap_in, wrap_out, csv_file, has_header,
                   req, files, csv_rows, result, cfg,
                   impl, cards, pc, batch_start, error>>

\* c.showPage() after the front page loop
ShowFrontPage ==
    /\ pc = "front"
    /\ idx = BatchLen
    /\ canvas' = showPage(canvas)
    /\ idx' = 0
    /\ pc' = "back"
    /\ UNCHANGED <<requests, tmpdir,
                   wrap_in, wrap_out, csv_file, has_header,
                   req, files, csv_rows, result, cfg,
                   impl, cards, batch_start, error>>

\* back page loop body (lines 352-356)
DrawBack ==
    /\ pc = "back"
    /\ impl = "v2"
    /\ idx < BatchLen
    /\ LET pos == iter_positions(cfg)[idx + 1]
       IN  canvas' = draw_card_answers(canvas, batch_start + idx + 1,
                                       pos.col, mirrored_row(cfg, pos.row),
                                       cards[batch_start + idx + 1], cfg,
                                       TRUE)
    /\ idx' = idx + 1
    /\ UNCHANGED <<requests, tmpdir,
                   wrap_in, wrap_out, csv_file, has_header,
                   req, files, csv_rows, result, cfg,
                   impl, cards, pc, batch_start, error>>

\* c.showPage() after the back page loop, end of the batch
ShowBackPage ==
    /\ pc = "back"
    /\ idx = BatchLen
    /\ canvas' = showPage(canvas)
    /\ idx' = 0
    /\ batch_start' = batch_start + BatchSize(cfg)
    /\ pc' = "batch"
    /\ UNCHANGED <<requests, tmpdir,
                   wrap_in, wrap_out, csv_file, has_header,
                   req, files, csv_rows, result, cfg, impl, cards, error>>

\* c.save() after the last batch
Save ==
    /\ pc = "batch"
    /\ batch_start >= Len(cards)
    /\ canvas' = save(canvas)
    /\ pc' = "done"
    /\ UNCHANGED <<requests, tmpdir,
                   wrap_in, wrap_out, csv_file, has_header,
                   req, files, csv_rows, result, cfg,
                   impl, cards, batch_start, idx, error>>

NextRenderV2 ==
    \/ RenderStart
    \/ NextBatch
    \/ DrawFront
    \/ ShowFrontPage
    \/ DrawBack
    \/ ShowBackPage
    \/ Save

----------------------------------------------------------------------------
(* card_generator.py: validate_card_lengths, draw_card, render_pdf         *)

CardRow(level, subject, question, answer) ==
    [level |-> level, subject |-> subject,
     question |-> question, answer |-> answer]

\* Mutant of RowError: blank fields are not looked for.
RowError_NoBlankCheck(c, i, config) ==
    IF Len(c.level) > config.max_chars_level
    THEN ValueError("too long", i, "level")
    ELSE IF Len(c.subject) > config.max_chars_subject
    THEN ValueError("too long", i, "subject")
    ELSE IF Len(c.question) > config.max_chars_question
    THEN ValueError("too long", i, "question")
    ELSE IF Len(c.answer) > config.max_chars_answer
    THEN ValueError("too long", i, "answer")
    ELSE NoError

\* The checks validate_card_lengths makes on row i, in their order
RowError(c, i, config) ==
    IF Len(c.level) > config.max_chars_level
    THEN ValueError("too long", i, "level")
    ELSE IF Len(c.subject) > config.max_chars_subject
    THEN ValueError("too long", i, "subject")
    ELSE IF Len(c.question) > config.max_chars_question
    THEN ValueError("too long", i, "question")
    ELSE IF Len(c.answer) > config.max_chars_answer
    THEN ValueError("too long", i, "answer")
    ELSE IF c.level = <<>> \/ c.subject = <<>>
            \/ c.question = <<>> \/ c.answer = <<>>
    THEN ValueError("blank", i, "any")
    ELSE NoError

\* Mutant of ValidateFrom: the rows are gone through from the last one.
ValidateFrom_LastFirst(rs, i, config) ==
    IF \E k \in i..Len(rs) : RowError(rs[k], k, config) # NoError
    THEN LET last == CHOOSE k \in i..Len(rs) :
                        /\ RowError(rs[k], k, config) # NoError
                        /\ \A j \in (k + 1)..Len(rs) :
                              RowError(rs[j], j, config) = NoError
         IN  RowError(rs[last], last, config)
    ELSE NoError

\* for i, c in enumerate(cards, start=1): the first row that raises
RECURSIVE ValidateFrom(_, _, _)
ValidateFrom(rs, i, config) ==
    IF i > Len(rs)
    THEN NoError
    ELSE IF RowError(rs[i], i, config) # NoError
         THEN RowError(rs[i], i, config)
         ELSE ValidateFrom(rs, i + 1, config)

validate_card_lengths(rs, config) == ValidateFrom(rs, 1, config)

\* draw_card's fit check: needed_h > body_h, with line_height = size * 1.25
TextOverflows(config, body_text) ==
    LET geo == grid_geometry(config)
        body_w == FracMinusInt(geo.card_w, 2 * config.padding)
        body_h == FracMinusInt(geo.card_h,
                               2 * config.padding + config.header_height)
        lines == wrap_text(body_text, config.font_name,
                           config.font_size_body, body_w)
    IN  Len(lines) * config.font_size_body * 5 * body_h.den > 4 * body_h.num

\* draw_card(c, x, y, ...) with (x, y) = card_xy(col, row): border, header
\* and badge are drawn before the fit check; the text only after it (a
\* card of this layout has one body text and no rows)
draw_card(c, side, n, col, row, body_text, config) ==
    [c EXCEPT !.page =
        Append(@, DrawOp(IF TextOverflows(config, body_text)
                         THEN "aborted" ELSE side,
                         n, col, row, card_xy(config, col, row), c.rot,
                         <<>>))]

\* lines 255-270: validation, geometry, positions, a fresh canvas
LegacyRenderStart ==
    /\ pc = "render"
    /\ impl = "legacy"
    /\ error' = validate_card_lengths(cards, cfg)
    /\ IF error' # NoError
       THEN pc' = "failed" /\ canvas' = canvas
       ELSE pc' = "batch" /\ canvas' = NewCanvas
    /\ batch_start' = 0
    /\ idx' = 0
    /\ UNCHANGED <<requests, tmpdir,
                   wrap_in, wrap_out, csv_file, has_header,
                   req, files, csv_rows, result, cfg, impl, cards>>

\* front page loop body (lines 277-290)
LegacyDrawFront ==
    /\ pc = "front"
    /\ impl = "legacy"
    /\ idx < BatchLen
    /\ LET pos == iter_positions(cfg)[idx + 1]
           card == cards[batch_start + idx + 1]
       IN  /\ canvas' = draw_card(canvas, "questions", batch_start + idx + 1,
                                  pos.col, pos.row, card.question, cfg)
           /\ IF TextOverflows(cfg, card.question)
              THEN /\ error' = ValueError("does not fit",
                                          batch_start + idx + 1, "question")
                   /\ pc' = "failed"
                   /\ idx' = idx
              ELSE /\ error' = error
                   /\ pc' = pc
                   /\ idx' = idx + 1
    /\ UNCHANGED <<requests, tmpdir,
                   wrap_in, wrap_out, csv_file, has_header,
                   req, files, csv_rows, result, cfg,
                   impl, cards, batch_start>>

\* back page loop body (lines 294-308)
LegacyDrawBack ==
    /\ pc = "back"
    /\ impl = "legacy"
    /\ idx < BatchLen
    /\ LET pos == iter_positions(cfg)[idx + 1]
           card == cards[batch_start + idx + 1]
       IN  /\ canvas' = draw_card(canvas, "answers", batch_start + idx + 1,
                                  mirrored_col(cfg, pos.col), pos.row,
                                  card.answer, cfg)
           /\ IF TextOverflows(cfg, card.answer)
              THEN /\ error' = ValueError("does not fit",
                                          batch_start + idx + 1, "answer")
                   /\ pc' = "failed"
                   /\ idx' = idx
              ELSE /\ error' = error
                   /\ pc' = pc
                   /\ idx' = idx + 1
    /\ UNCHANGED <<requests, tmpdir,
                   wrap_in, wrap_out, csv_file, has_header,
                   req, files, csv_rows, result, cfg,
                   impl, cards, batch_start>>

NextLegacy ==
    \/ LegacyRenderStart
    \/ LegacyDrawFront
    \/ LegacyDrawBack

----------------------------------------------------------------------------
(* Input rows of the loader                                                *)

SubjectCodes == <<"M", "S", "E", "H", "G", "A">>

LevelPatterns == {"one", "split3", "split6", "alt"}

DefectKinds == {"dupPrev", "empty", "blank"}

LevelName(pat, k) ==
    CASE pat = "one" -> "a"
      [] pat = "split3" -> IF k <= 3 THEN "a" ELSE "b"
      [] pat = "split6" -> IF k <= 6 THEN "a" ELSE "b"
      [] OTHER -> IF k % 2 = 1 THEN "a" ELSE "b"

IndexInLevel(pat, k) ==
    Cardinality({j \in 1..(k - 1) : LevelName(pat, j) = LevelName(pat, k)})

\* A defective row repeats the subject of the slot before it, or has an
\* empty or a blank subject; every third row has padded fields.
\* Sets of at most k defects (position, kind) at increasing positions lo..n
RECURSIVE DefectSets(_, _, _)
DefectSets(lo, n, k) ==
    IF k = 0 \/ lo > n
    THEN {{}}
    ELSE {{}} \cup
         UNION {{ {<<p, kind>>} \cup D :
                     D \in DefectSets(p + 1, n, k - 1), kind \in DefectKinds}
                : p \in lo..n}

InputRow(pat, k, D) ==
    LET slot == IndexInLevel(pat, k) % QuestionsPerCard
        code == SubjectCodes[slot + 1]
        prev == SubjectCodes[((slot + QuestionsPerCard - 1)
                                 % QuestionsPerCard) + 1]
        kind == IF \E d \in D : d[1] = k
                THEN (CHOOSE d \in D : d[1] = k)[2]
                ELSE "none"
        padded == k % 3 = 0
    IN  [level |-> IF padded
                   THEN <<" ", LevelName(pat, k)>>
                   ELSE <<LevelName(pat, k)>>,
         subject |-> CASE kind = "dupPrev" -> <<prev>>
                       [] kind = "empty" -> <<>>
                       [] kind = "blank" -> <<" ">>
                       [] OTHER -> IF padded THEN <<code, "\t">> ELSE <<code>>,
         question |-> <<"Q", ToString(k)>>,
         answer |-> <<"A", ToString(k), " ">>]

\* The loader's inputs: n rows in a level pattern with at most MaxDefects
\* defective rows.
IsInput(rs) ==
    \E n \in 0..MaxInputRows, pat \in LevelPatterns :
        \E D \in DefectSets(1, n, MaxDefects) :
            rs = [k \in 1..n |-> InputRow(pat, k, D)]

----------------------------------------------------------------------------
(* The command-line program of card_generator_v2.py: load, then render     *)

Init ==
    /\ IsInput(csv_rows)
    /\ result = NotRun
    /\ cfg = LayoutConfig(DefaultCols, DefaultRows)
    /\ impl = "v2"
    /\ cards = <<>>
    /\ pc = "load"
    /\ batch_start = 0
    /\ idx = 0
    /\ canvas = NoCanvas
    /\ error = NoError
    /\ req = NoRequest
    /\ files = {}
    /\ requests = <<>>
    /\ tmpdir = EmptyDir
    /\ csv_file = <<>>
    /\ has_header = FALSE
    /\ wrap_in = NoText
    /\ wrap_out = <<>>

\* cards = load_cards_from_csv(args.csv_path); an exception ends the program
LoadCards ==
    /\ pc = "load"
    /\ result' = load_cards_from_csv(csv_rows)
    /\ IF result'.kind = "ok"
       THEN cards' = result'.cards /\ pc' = "render"
       ELSE cards' = cards /\ pc' = "failed"
    /\ UNCHANGED <<requests, tmpdir,
                   wrap_in, wrap_out, csv_file, has_header,
                   req, files, csv_rows, cfg, impl,
                   batch_start, idx, canvas, error>>

Next == LoadCards \/ NextRenderV2

Spec == Init /\ [][Next]_vars

----------------------------------------------------------------------------
(* app.py: the /api/generate handler, one request                          *)

\* The parameters of card_generator_v2.render_pdf(cards, out_pdf, cfg)
render_pdf_parameters == {"cards", "out_pdf", "cfg"}

\* A call binds its keyword arguments only to parameters of the function;
\* any other keyword raises TypeError before the body runs.
AcceptsKeywords(parameters, keywords) == keywords \subseteq parameters

PrintModes == {"duplex_long", "duplex_short", "single_sided"}

\* request.form.get('print_mode', 'duplex_long')
GetPrintMode(field) == IF field = "absent" THEN "duplex_long" ELSE field

\* What render_pdf leaves in the file when it runs to the end
RECURSIVE RenderedPages(_, _, _)
RenderedPages(cs, start, config) ==
    IF start >= Len(cs)
    THEN <<>>
    ELSE LET len == Min(start + BatchSize(config), Len(cs)) - start
             positions == iter_positions(config)
             front == [k \in 1..len |->
                          DrawOp("questions", start + k,
                                 positions[k].col, positions[k].row,
                                 card_xy(config, positions[k].col,
                                         positions[k].row), 0,
                                 DrawRows(cs[start + k].questions, 0,
                                          "questions", config, <<>>))]
             back == [k \in 1..len |->
                         DrawOp("answers", start + k, positions[k].col,
                                mirrored_row(config, positions[k].row),
                                card_xy(config, positions[k].col,
                                        mirrored_row(config,
                                                     positions[k].row)),
                                rotate_180(0),
                                DrawRows(cs[start + k].questions, 0,
                                         "answers", config, <<>>))]
         IN  <<front, back>>
                 \o RenderedPages(cs, start + BatchSize(config), config)

\* lines 81-97: the checks on the uploaded file
CheckUpload ==
    /\ req.pc = "upload"
    /\ IF req.upload = "ok"
       THEN req' = [req EXCEPT !.pc = "tempfiles"]
       ELSE req' = [req EXCEPT !.pc = "done", !.status = 400]
    /\ UNCHANGED <<requests, tmpdir,
                   wrap_in, wrap_out, csv_file, has_header,
                   csv_rows, result, cfg, impl, cards, pc, batch_start, idx,
                   canvas, error, files>>

\* lines 100-107: the two NamedTemporaryFile(delete=False)
CreateTempFiles ==
    /\ req.pc = "tempfiles"
    /\ files' = files \cup {"tmp.csv", "tmp.pdf"}
    /\ req' = [req EXCEPT !.pc = "print_mode"]
    /\ UNCHANGED <<requests, tmpdir,
                   wrap_in, wrap_out, csv_file, has_header,
                   csv_rows, result, cfg, impl, cards, pc, batch_start, idx,
                   canvas, error>>

\* lines 111-113: an invalid print_mode returns from inside the try block
CheckPrintMode ==
    /\ req.pc = "print_mode"
    /\ IF GetPrintMode(req.print_mode) \in PrintModes
       THEN req' = [req EXCEPT !.pc = "generate"]
       ELSE req' = [req EXCEPT !.pc = "done", !.status = 400]
    /\ UNCHANGED <<requests, tmpdir,
                   wrap_in, wrap_out, csv_file, has_header,
                   csv_rows, result, cfg, impl, cards, pc, batch_start, idx,
                   canvas, error, files>>

\* lines 116-167: load, render, send the file; or clean up and answer with
\* the error (a ValueError with 400, anything else with 500)
GenerateAndRespond ==
    /\ req.pc = "generate"
    /\ result' = load_cards_from_csv(csv_rows)
    /\ IF result'.kind # "ok"
       THEN /\ cards' = cards
            /\ files' = files \ {"tmp.csv", "tmp.pdf"}
            /\ req' = [req EXCEPT !.pc = "done", !.exception = "ValueError",
                                  !.status = 400]
       ELSE /\ cards' = result'.cards
            /\ IF ~AcceptsKeywords(render_pdf_parameters,
                                   {"print_mode"})
               THEN /\ files' = files \ {"tmp.csv", "tmp.pdf"}
                    /\ req' = [req EXCEPT !.pc = "done",
                                          !.exception = "TypeError",
                                          !.status = 500]
               ELSE /\ files' = files \ {"tmp.csv"}
                    /\ req' = [req EXCEPT
                                  !.pc = "done", !.status = 200,
                                  !.document =
                                      RenderedPages(cards', 0, cfg)]
    /\ UNCHANGED <<requests, tmpdir,
                   wrap_in, wrap_out, csv_file, has_header,
                   csv_rows, cfg, impl, pc, batch_start, idx, canvas, error>>

NextApp ==
    \/ CheckUpload
    \/ CreateTempFiles
    \/ CheckPrintMode
    \/ GenerateAndRespond

Uploads == {"missing", "noname", "notcsv", "badtype", "ok"}

InitApp ==
    /\ \E n \in 0..MaxInputRows, pat \in LevelPatterns :
          \E D \in DefectSets(1, Min(n, 1), 1) :
              csv_rows = [k \in 1..n |-> InputRow(pat, k, D)]
    /\ result = NotRun
    /\ cfg = LayoutConfig(DefaultCols, DefaultRows)
    /\ impl = "v2"
    /\ cards = <<>>
    /\ pc = "handler"
    /\ batch_start = 0
    /\ idx = 0
    /\ canvas = NoCanvas
    /\ error = NoError
    /\ \E u \in Uploads, m \in PrintModes \cup {"absent", "booklet"} :
          req = [upload |-> u, print_mode |-> m, pc |-> "upload",
                 exception |-> "none", status |-> 0, document |-> <<>>]
    /\ files = {}
    /\ requests = <<>>
    /\ tmpdir = EmptyDir
    /\ csv_file = <<>>
    /\ has_header = FALSE
    /\ wrap_in = NoText
    /\ wrap_out = <<>>

SpecApp == InitApp /\ [][NextApp]_vars

----------------------------------------------------------------------------
(* Reading the CSV file: csv.DictReader in card_generator_v2.py, and       *)
(* load_cards of card_generator.py                                         *)

MaxFileRows == 6

Name_level == <<"l", "e", "v", "e", "l">>

Name_stage == <<"s", "t", "a", "g", "e">>

Name_tier == <<"t", "i", "e", "r">>

Name_subject == <<"s", "u", "b", "j", "e", "c", "t">>

Name_category == <<"c", "a", "t", "e", "g", "o", "r", "y">>

Name_cat == <<"c", "a", "t">>

Name_question == <<"q", "u", "e", "s", "t", "i", "o", "n">>

Name_q == <<"q">>

Name_answer == <<"a", "n", "s", "w", "e", "r">>

Name_a == <<"a">>

\* str.lower(), on the capital letters the header cells are written with
LowerChar(ch) ==
    CASE ch = "A" -> "a"
      [] ch = "L" -> "l"
      [] ch = "Q" -> "q"
      [] ch = "S" -> "s"
      [] OTHER -> ch

Lower(text) == [k \in 1..Len(text) |-> LowerChar(text[k])]

\* FileError: an exception of the file stage, with what its message names
FileError(kind, names, row, count) ==
    [kind |-> kind, cards |-> <<>>, names |-> names, row |-> row,
     count |-> count]

\* The last index of a name in the field names (0 if it is not there)
LastIndex(fieldnames, name) ==
    IF \E i \in 1..Len(fieldnames) : fieldnames[i] = name
    THEN CHOOSE i \in 1..Len(fieldnames) :
            /\ fieldnames[i] = name
            /\ \A j \in (i + 1)..Len(fieldnames) : fieldnames[j] # name
    ELSE 0

\* csv.DictReader(f): the first line gives the field names; lines without
\* any cell are skipped; each other line becomes a dict from the field
\* names to its cells, a name beyond the line's last cell getting None
\* (written <<>> here: _clean turns None into the empty string).
DictReader(table) ==
    IF table = <<>>
    THEN <<>>
    ELSE LET fieldnames == table[1]
             lines == SelectSeq(Tail(table), LAMBDA r : r # <<>>)
         IN  [k \in 1..Len(lines) |->
                [name \in SetOf(fieldnames) |->
                    IF LastIndex(fieldnames, name) <= Len(lines[k])
                    THEN lines[k][LastIndex(fieldnames, name)]
                    ELSE <<>>]]

\* The keys the first loop reads from a row, in the order it reads them
RowKeys == <<Name_level, Name_subject, Name_question, Name_answer>>

\* load_cards_from_csv(csv_path) from the file on: the rows of DictReader,
\* then row['level'], row['subject'], row['question'], row['answer'] of the
\* first row (a KeyError if the key is absent), then the two loops.
load_cards_from_csv_file(table) ==
    LET rows == DictReader(table)
    IN  IF rows = <<>>
        THEN load_cards_from_csv(<<>>)
        ELSE LET missing ==
                     SelectSeq(RowKeys, LAMBDA key : key \notin DOMAIN rows[1])
             IN  IF missing # <<>>
                 THEN FileError("KeyError", <<Head(missing)>>, 1, 0)
                 ELSE load_cards_from_csv(
                          [k \in 1..Len(rows) |->
                              [level |-> rows[k][Name_level],
                               subject |-> rows[k][Name_subject],
                               question |-> rows[k][Name_question],
                               answer |-> rows[k][Name_answer]]])

\* any(_clean(c) for c in r)
HasContent(r) == \E k \in 1..Len(r) : _clean(r[k]) # <<>>

\* find_col(*names): the index (from 1) of the first of the names that is
\* in the header, 0 for the ValueError
find_col(header, names) ==
    IF \E i \in 1..Len(names) : names[i] \in SetOf(header)
    THEN LET n == names[CHOOSE i \in 1..Len(names) :
                        /\ names[i] \in SetOf(header)
                        /\ \A j \in 1..(i - 1) : names[j] \notin SetOf(header)]
         IN  CHOOSE k \in 1..Len(header) :
                /\ header[k] = n
                /\ \A j \in 1..(k - 1) : header[j] # n
    ELSE 0

\* r[i] after the row was padded with "" up to the largest index
PaddedCell(r, i) == IF i <= Len(r) THEN r[i] ELSE <<>>

AliasesOf_level == <<Name_level, Name_stage, Name_tier>>

AliasesOf_subject == <<Name_subject, Name_category, Name_cat>>

AliasesOf_question == <<Name_question, Name_q>>

AliasesOf_answer == <<Name_answer, Name_a>>

\* load_cards(csv_path), given the lines csv.reader yields and the verdict
\* of csv.Sniffer().has_header
load_cards(table, sniffed) ==
    LET rows == SelectSeq(table, HasContent)
    IN  IF rows = <<>>
        THEN FileError("Empty", <<>>, 0, 0)
        ELSE IF sniffed
        THEN LET header == [k \in 1..Len(rows[1]) |->
                               Strip(Lower(rows[1][k]))]
                 data == Tail(rows)
                 i_level == find_col(header, AliasesOf_level)
                 i_subject == find_col(header, AliasesOf_subject)
                 i_q == find_col(header, AliasesOf_question)
                 i_a == find_col(header, AliasesOf_answer)
             IN  IF i_level = 0
                 THEN FileError("MissingColumn", AliasesOf_level, 1, 0)
                 ELSE IF i_subject = 0
                 THEN FileError("MissingColumn", AliasesOf_subject, 1, 0)
                 ELSE IF i_q = 0
                 THEN FileError("MissingColumn", AliasesOf_question, 1, 0)
                 ELSE IF i_a = 0
                 THEN FileError("MissingColumn", AliasesOf_answer, 1, 0)
                 ELSE LoadOk([k \in 1..Len(data) |->
                         CardRow(_clean(PaddedCell(data[k], i_level)),
                                 _clean(PaddedCell(data[k], i_subject)),
                                 _clean(PaddedCell(data[k], i_q)),
                                 _clean(PaddedCell(data[k], i_a)))])
        ELSE IF \E k \in 1..Len(rows) : Len(rows[k]) < 4
        THEN LET idx1 == CHOOSE k \in 1..Len(rows) :
                            /\ Len(rows[k]) < 4
                            /\ \A j \in 1..(k - 1) : Len(rows[j]) >= 4
             IN  FileError("ShortRow", <<>>, idx1, Len(rows[idx1]))
        ELSE LoadOk([k \in 1..Len(rows) |->
                        CardRow(_clean(rows[k][1]), _clean(rows[k][2]),
                                _clean(rows[k][3]), _clean(rows[k][4]))])

\* The loader of each program
LoadFrom(program, table, sniffed) ==
    IF program = "v2"
    THEN load_cards_from_csv_file(table)
    ELSE load_cards(table, sniffed)

\* The files: a header line of some kind (or none), then up to MaxFileRows
\* data lines in the header's column order, with at most one blank line
\* among them: a line without cells, a line of empty cells, or a line of
\* one cell of white space.
HeaderKinds ==
    {"canonical", "alias", "permuted", "cased", "missing", "none"}

BlankKinds == {"emptyLine", "commas", "spaces"}

HeaderLine(kind) ==
    CASE kind = "canonical" ->
             <<Name_level, Name_subject, Name_question, Name_answer>>
      [] kind = "alias" -> <<Name_stage, Name_category, Name_q, Name_a>>
      [] kind = "permuted" ->
             <<Name_subject, Name_level, Name_answer, Name_question>>
      [] kind = "cased" ->
             <<<<"L", "e", "v", "e", "l">>,
               <<" ", "S", "u", "b", "j", "e", "c", "t">>,
               <<"Q", "u", "e", "s", "t", "i", "o", "n", " ">>,
               <<"A", "n", "s", "w", "e", "r">> >>
      [] OTHER -> <<Name_level, Name_subject, Name_question>>

DataLine(kind, k) ==
    LET level == <<"L", "1">>
        subject == <<SubjectCodes[((k - 1) % QuestionsPerCard) + 1]>>
        question == IF k % 2 = 0
                    THEN <<" ", "Q", ToString(k), BOM>>
                    ELSE <<"Q", ToString(k)>>
        answer == <<"A", ToString(k)>>
    IN  CASE kind = "permuted" -> <<subject, level, answer, question>>
          [] kind = "missing" -> <<level, subject, question>>
          [] OTHER -> <<level, subject, question, answer>>

BlankLine(kind) ==
    CASE kind = "emptyLine" -> <<>>
      [] kind = "commas" -> <<<<>>, <<>>, <<>>, <<>>>>
      [] OTHER -> << <<" ">> >>

\* n data lines, the blank line (if any) after the p-th of them
FileLines(kind, n, blank, p) ==
    LET data == [k \in 1..n |-> DataLine(kind, k)]
        body == IF blank = "none"
                THEN data
                ELSE SubSeq(data, 1, p) \o <<BlankLine(blank)>>
                         \o SubSeq(data, p + 1, n)
    IN  IF kind = "none" THEN body ELSE <<HeaderLine(kind)>> \o body

InitLoad ==
    /\ \E kind \in HeaderKinds, n \in 0..MaxFileRows :
          \/ csv_file = FileLines(kind, n, "none", 0)
          \/ \E blank \in BlankKinds, p \in 0..n :
                csv_file = FileLines(kind, n, blank, p)
    /\ has_header \in IF csv_file = <<>> THEN {FALSE} ELSE BOOLEAN
    /\ impl \in {"v2", "legacy"}
    /\ csv_rows = <<>>
    /\ result = NotRun
    /\ cfg = LayoutConfig(DefaultCols, DefaultRows)
    /\ cards = <<>>
    /\ pc = "load_file"
    /\ batch_start = 0
    /\ idx = 0
    /\ canvas = NoCanvas
    /\ error = NoError
    /\ req = NoRequest
    /\ files = {}
    /\ requests = <<>>
    /\ tmpdir = EmptyDir
    /\ wrap_in = NoText
    /\ wrap_out = <<>>

\* __main__ of either program: cards = load(args.csv_path), then
\* render_pdf(cards, ...); an exception of the load ends the program
LoadFile ==
    /\ pc = "load_file"
    /\ result' = LoadFrom(impl, csv_file, has_header)
    /\ IF result'.kind = "ok"
       THEN cards' = result'.cards /\ pc' = "render"
       ELSE cards' = cards /\ pc' = "failed"
    /\ UNCHANGED <<requests, tmpdir,
                   wrap_in, wrap_out, csv_file, has_header, req, files,
                   csv_rows, cfg, impl,
                   batch_start, idx, canvas, error>>

NextLoad == LoadFile \/ NextRenderV2 \/ NextLegacy

SpecLoad == InitLoad /\ [][NextLoad]_vars

----------------------------------------------------------------------------
(* wrap_text called on a text and a width                                  *)

MaxTextLen == 4

TextAlphabet == {"W", "a", "i", " ", "\t"}

\* The texts of at most n characters
RECURSIVE TextsUpTo(_)
TextsUpTo(n) ==
    IF n = 0
    THEN {<<>>}
    ELSE LET shorter == TextsUpTo(n - 1)
         IN  shorter \cup {Append(t, ch) : t \in shorter, ch \in TextAlphabet}

\* Widths at size 4, where "i" measures 1, "a" 2 and "W" 4: below every
\* glyph, below zero, between glyphs, and wide enough for several words
WrapWidths == {Frac(0 - 1, 1), Frac(1, 2), Frac(5, 2), Frac(11, 2)}

InitWrap ==
    /\ \E t \in TextsUpTo(MaxTextLen), w \in WrapWidths :
          wrap_in = [text |-> t, font |-> "Helvetica", size |-> 4,
                     max_width |-> w]
    /\ wrap_out = <<>>
    /\ pc = "wrap"
    /\ csv_file = <<>>
    /\ has_header = FALSE
    /\ csv_rows = <<>>
    /\ result = NotRun
    /\ cfg = LayoutConfig(DefaultCols, DefaultRows)
    /\ impl = "v2"
    /\ cards = <<>>
    /\ batch_start = 0
    /\ idx = 0
    /\ canvas = NoCanvas
    /\ error = NoError
    /\ req = NoRequest
    /\ files = {}
    /\ requests = <<>>
    /\ tmpdir = EmptyDir

\* lines = wrap_text(text, font, size, max_width)
Wrap ==
    /\ pc = "wrap"
    /\ wrap_out' = wrap_text(wrap_in.text, wrap_in.font, wrap_in.size,
                             wrap_in.max_width)
    /\ pc' = "wrapped"
    /\ UNCHANGED <<requests, tmpdir,
                   wrap_in, csv_file, has_header, req, files, csv_rows, result,
                   cfg, impl, cards, batch_start, idx, canvas, error>>

NextWrap == Wrap

SpecWrap == InitWrap /\ [][NextWrap]_vars

----------------------------------------------------------------------------
(* Claims about wrap_text                                                  *)

\* The measured width of a line is at most the width asked for
LineFits(line) ==
    SumWidths(line) * wrap_in.size * wrap_in.max_width.den
        <= 1000 * wrap_in.max_width.num

\* C16 (as claimed): every returned line measures at most max_width,
\* unless it is a single character.
C16_LinesFit ==
    pc = "wrapped" =>
        \A k \in 1..Len(wrap_out) :
            LineFits(wrap_out[k]) \/ Len(wrap_out[k]) = 1

\* C16 (amended): every returned line measures at most max_width, unless
\* it is a single character or the empty line of a text without words.
C16_LinesFitOrEmpty ==
    pc = "wrapped" =>
        \A k \in 1..Len(wrap_out) :
            \/ LineFits(wrap_out[k])
            \/ Len(wrap_out[k]) = 1
            \/ wrap_out[k] = <<>> /\ Len(wrap_out) = 1
                  /\ wrap_in.max_width.num < 0

\* A word too wide for the line was split into chunks that fit, the last
\* line holding two characters.
C16_Witness ==
    /\ pc = "wrapped"
    /\ wrap_in.text = <<"a", "i", "i", "a">>
    /\ wrap_in.max_width = Frac(5, 2)
    /\ Len(wrap_out) = 3
    /\ wrap_out[2] = <<"i", "i">>

\* The characters of a text that are not white space, in order
RECURSIVE Letters(_)
Letters(text) ==
    IF text = <<>>
    THEN <<>>
    ELSE IF Head(text) \in Whitespace
         THEN Letters(Tail(text))
         ELSE <<Head(text)>> \o Letters(Tail(text))

\* The maximal runs of characters other than white space, in order
RECURSIVE WordsOf(_, _)
WordsOf(text, word) ==
    IF text = <<>>
    THEN IF word = <<>> THEN <<>> ELSE <<word>>
    ELSE IF Head(text) \in Whitespace
         THEN (IF word = <<>> THEN <<>> ELSE <<word>>)
                  \o WordsOf(Tail(text), <<>>)
         ELSE WordsOf(Tail(text), Append(word, Head(text)))

RECURSIVE Flatten(_)
Flatten(seqs) ==
    IF seqs = <<>> THEN <<>> ELSE Head(seqs) \o Flatten(Tail(seqs))

\* The words of all lines, in order
LineWords(lines) ==
    Flatten([k \in 1..Len(lines) |-> WordsOf(lines[k], <<>>)])

\* Each word is the concatenation of a run of consecutive pieces, the runs
\* following one another and using up all pieces
RECURSIVE MadeOf(_, _, _)
MadeOf(words, pieces, built) ==
    IF words = <<>>
    THEN pieces = <<>> /\ built = <<>>
    ELSE IF built = Head(words)
         THEN MadeOf(Tail(words), pieces, <<>>)
         ELSE /\ pieces # <<>>
              /\ Len(built) + Len(Head(pieces)) <= Len(Head(words))
              /\ MadeOf(words, Tail(pieces), built \o Head(pieces))

\* C17: the words of the returned lines, in order, are the words of the
\* text, a word that was hard-split being the concatenation of consecutive
\* chunks; lines hold single spaces between words and none at their ends;
\* there is always at least one line, and a text without words gives
\* exactly one empty line.
C17_WordsPreserved ==
    pc = "wrapped" =>
        /\ Len(wrap_out) >= 1
        /\ Letters(wrap_in.text) = <<>> => wrap_out = << <<>> >>
        /\ Letters(wrap_in.text) # <<>> =>
              \A k \in 1..Len(wrap_out) :
                  /\ wrap_out[k] # <<>>
                  /\ wrap_out[k][1] \notin Whitespace
                  /\ wrap_out[k][Len(wrap_out[k])] \notin Whitespace
        /\ MadeOf(WordsOf(wrap_in.text, <<>>), LineWords(wrap_out), <<>>)
        /\ (\A k \in 1..Len(wrap_out) : LineFits(wrap_out[k])
            /\ \A w \in 1..Len(WordsOf(wrap_in.text, <<>>)) :
                  LineFits(WordsOf(wrap_in.text, <<>>)[w]))
              => LineWords(wrap_out) = WordsOf(wrap_in.text, <<>>)

\* Two words separated by a tab, the first too wide and split in two, the
\* second on a line of its own.
C17_Witness ==
    /\ pc = "wrapped"
    /\ wrap_in.text = <<"W", "W", "\t", "i">>
    /\ wrap_in.max_width = Frac(11, 2)
    /\ wrap_out = << <<"W">>, <<"W">>, <<"i">> >>

----------------------------------------------------------------------------
(* Claims about the loader                                                 *)

\* The cleaned level and subject of input row k
LevelOf(k) == _clean(csv_rows[k].level)

SubjectOf(k) == _clean(csv_rows[k].subject)

\* A question of a card comes from an input row of the given level
FromRowOfLevel(q, level) ==
    \E k \in 1..Len(csv_rows) :
        /\ LevelOf(k) = level
        /\ SubjectOf(k) = q.subject
        /\ _clean(csv_rows[k].question) = q.text
        /\ _clean(csv_rows[k].answer) = q.answer

WellFormedCard(card) ==
    /\ Len(card.questions) = 6
    /\ \A a, b \in 1..Len(card.questions) :
          a # b => card.questions[a].subject # card.questions[b].subject
    /\ \A a \in 1..Len(card.questions) :
          /\ card.questions[a].subject # <<>>
          /\ FromRowOfLevel(card.questions[a], card.level)

\* C7: every card load returns, and every card render_pdf is given, has
\* exactly 6 questions with pairwise distinct, non-empty subject codes, all
\* taken from input rows of the card's own level.
C7_CardsWellFormed ==
    /\ \A n \in 1..Len(result.cards) : WellFormedCard(result.cards[n])
    /\ \A n \in 1..Len(cards) : WellFormedCard(cards[n])

\* Two cards of two levels were loaded, rendered and saved.
C7_Witness ==
    /\ pc = "done"
    /\ canvas.saved
    /\ Len(cards) = 2
    /\ cards[1].level # cards[2].level

\* The levels of the input and, per level, the rows and their rank
InputLevels == {LevelOf(k) : k \in 1..Len(csv_rows)}

RowsOfLevel(level) == {k \in 1..Len(csv_rows) : LevelOf(k) = level}

Rank(k) == Cardinality({j \in 1..(k - 1) : LevelOf(j) = LevelOf(k)})

\* The rows of chunk j (from 0) of a level
RowsOfChunk(level, j) ==
    {k \in RowsOfLevel(level) : Rank(k) \div 6 = j}

SameChunk(a, b) ==
    LevelOf(a) = LevelOf(b) /\ Rank(a) \div 6 = Rank(b) \div 6

RepeatedSubjects(rowset) ==
    {SubjectOf(k) : k \in
        {a \in rowset : \E b \in rowset :
            a # b /\ SubjectOf(a) = SubjectOf(b)}}

NoEmptySubject == \A k \in 1..Len(csv_rows) : SubjectOf(k) # <<>>

NoRepeatInAnyChunk ==
    \A a, b \in 1..Len(csv_rows) :
        (a < b /\ SubjectOf(a) = SubjectOf(b)) => ~SameChunk(a, b)

AllLevelsComplete ==
    \A level \in InputLevels : Cardinality(RowsOfLevel(level)) % 6 = 0

RECURSIVE SumOverLevels(_)
SumOverLevels(levels) ==
    IF levels = {}
    THEN 0
    ELSE LET level == CHOOSE l \in levels : TRUE
         IN  (Cardinality(RowsOfLevel(level)) \div 6)
                 + SumOverLevels(levels \ {level})

\* C8: on rows with non-empty subjects and no subject repeated inside a
\* chunk, load returns sum over levels of count / 6 cards when every level
\* has a multiple of 6 rows, and otherwise raises the incomplete-card error
\* and returns no cards.
C8_CardCount ==
    (result.kind # "none" /\ NoEmptySubject /\ NoRepeatInAnyChunk) =>
        IF AllLevelsComplete
        THEN /\ result.kind = "ok"
             /\ Len(result.cards) = SumOverLevels(InputLevels)
        ELSE /\ result.kind = "Incomplete"
             /\ result.cards = <<>>
             /\ cards = <<>>

\* Two levels of 6 rows each, interleaved, have been loaded as 2 cards.
C8_Witness ==
    /\ result.kind = "ok"
    /\ Len(result.cards) = 2
    /\ Len(csv_rows) = 12
    /\ LevelOf(1) # LevelOf(2)

\* C9 (as claimed): the incomplete-card error carries the level, the
\* 0-based index of the chunk within the level and the chunk's row count.
C9_ZeroBasedChunkIndex ==
    result.kind = "Incomplete" =>
        /\ result.level \in InputLevels
        /\ result.card = Cardinality(RowsOfLevel(result.level)) \div 6
        /\ result.count = Cardinality(RowsOfLevel(result.level)) % 6

\* C9 (amended): the incomplete-card error carries the level, the 1-based
\* number of the chunk within the level (chunk index + 1) and the chunk's
\* row count; 5 rows of one level give that level, card 1, count 5.
C9_OneBasedCardNumber ==
    result.kind = "Incomplete" =>
        /\ result.level \in InputLevels
        /\ result.card = (Cardinality(RowsOfLevel(result.level)) \div 6) + 1
        /\ result.count = Cardinality(RowsOfLevel(result.level)) % 6
        /\ result.count > 0
        /\ result.cards = <<>>
        /\ (Len(csv_rows) = 5 /\ Cardinality(InputLevels) = 1) =>
              (result.card = 1 /\ result.count = 5)

\* The second chunk of a level is the incomplete one.
C9_Witness ==
    /\ result.kind = "Incomplete"
    /\ result.card = 2
    /\ result.count = 5

\* C10: the duplicate-subject error carries the level and the card number
\* of a full chunk of the input and exactly the subjects that occur more
\* than once in that chunk; on complete input without empty subjects load
\* raises it exactly when some chunk repeats a subject, so a subject that
\* recurs only in another chunk or another level is no error.
C10_DuplicateSubjects ==
    /\ result.kind = "Duplicate" =>
          LET chunk == RowsOfChunk(result.level, result.card - 1)
          IN  /\ result.level \in InputLevels
              /\ Cardinality(chunk) = 6
              /\ result.dups = RepeatedSubjects(chunk)
              /\ result.dups # {}
              /\ result.cards = <<>>
    /\ (result.kind # "none" /\ NoEmptySubject /\ AllLevelsComplete) =>
          (result.kind = "Duplicate" <=> ~NoRepeatInAnyChunk)
    /\ (result.kind # "none" /\ ~NoRepeatInAnyChunk /\ AllLevelsComplete) =>
          result.kind \in {"Duplicate", "EmptySubject"}

\* The second chunk of a level repeats two different subjects.
C10_Witness ==
    /\ result.kind = "Duplicate"
    /\ result.card = 2
    /\ Cardinality(result.dups) = 2

\* A subject recurs in two chunks of one level and the load succeeds.
C10_WitnessOtherChunk ==
    /\ result.kind = "ok"
    /\ Len(result.cards) = 2
    /\ result.cards[1].level = result.cards[2].level

\* C11: load raises the empty-subject error exactly when some row's subject
\* is empty after cleaning, whatever else is wrong with the input, and no
\* question of a returned card has an empty subject.
C11_EmptySubjectRejected ==
    /\ result.kind # "none" =>
          (result.kind = "EmptySubject" <=> ~NoEmptySubject)
    /\ result.kind = "EmptySubject" => result.cards = <<>> /\ cards = <<>>
    /\ \A n \in 1..Len(result.cards) :
          \A k \in 1..Len(result.cards[n].questions) :
              result.cards[n].questions[k].subject # <<>>

\* The only empty subject of the input is one of white space, in a row
\* after the first six: the empty subject is reported.
C11_Witness ==
    /\ result.kind = "EmptySubject"
    /\ \E k \in 7..Len(csv_rows) :
          /\ csv_rows[k].subject = <<" ">>
          /\ \A j \in 1..Len(csv_rows) : j # k => SubjectOf(j) # <<>>

\* The first row of a level, and the levels seen before a level was
FirstRow(level) == CHOOSE k \in RowsOfLevel(level) : Rank(k) = 0

CardsBefore(level) ==
    SumOverLevels({l \in InputLevels : FirstRow(l) < FirstRow(level)})

\* The row of a level that has a given rank
RowAt(level, r) == CHOOSE k \in RowsOfLevel(level) : Rank(k) = r

QuestionOfRow(k) ==
    Question(SubjectOf(k), _clean(csv_rows[k].question),
             _clean(csv_rows[k].answer))

\* C12: rows are grouped by level wherever they stand in the input; the
\* cards of a level follow the cards of all levels first seen before it,
\* and the j-th card of a level (from 0) holds the rows of rank 6j..6j+5 of
\* that level, in input order, slot s holding rank 6j+s.
C12_GroupedInInputOrder ==
    result.kind = "ok" =>
        \A level \in InputLevels :
            \A j \in 0..((Cardinality(RowsOfLevel(level)) \div 6) - 1) :
                /\ CardsBefore(level) + j + 1 \in 1..Len(result.cards)
                /\ result.cards[CardsBefore(level) + j + 1] =
                      Card(level,
                           [s \in 1..6 |->
                               QuestionOfRow(RowAt(level, 6 * j + s - 1))])

\* Two levels whose rows alternate were loaded: the second slot of the
\* first card holds the third row of the input.
C12_Witness ==
    /\ result.kind = "ok"
    /\ Len(result.cards) = 2
    /\ LevelOf(1) # LevelOf(2)
    /\ LevelOf(3) = LevelOf(1)
    /\ result.cards[1].questions[2] = QuestionOfRow(3)
    /\ result.cards[2].level = LevelOf(2)

----------------------------------------------------------------------------
(* Claims about reading the file                                           *)

\* The file without its blank lines (lines none of whose cells has content)
WithoutBlankLines(table) ==
    SelectSeq(table, LAMBDA r : \E k \in 1..Len(r) :
                                   Replace(Strip(r[k]), BOM) # <<>>)

IsTrimmed(text) ==
    /\ \A k \in 1..Len(text) : text[k] # BOM
    /\ text # <<>> =>
          (text[1] \notin Whitespace /\ text[Len(text)] \notin Whitespace)

\* The fields of a returned record, a card of six questions or a card row
FieldsOf(record) ==
    IF "questions" \in DOMAIN record
    THEN {record.level}
         \cup UNION {{record.questions[k].subject, record.questions[k].text,
                      record.questions[k].answer}
                        : k \in 1..Len(record.questions)}
    ELSE {record.level, record.subject, record.question, record.answer}

\* C13 (as claimed): every field of every record load returns is trimmed
\* and free of byte-order marks, and load gives the result it gives for
\* the same file without its blank lines.
C13_BlankRowsDropped ==
    result.kind # "none" =>
        /\ \A n \in 1..Len(result.cards) :
              \A f \in FieldsOf(result.cards[n]) : IsTrimmed(f)
        /\ result = LoadFrom(impl, WithoutBlankLines(csv_file), has_header)

\* The logical column a header cell names, by any of its aliases
LogicalColumn(cell) ==
    LET c == Strip(Lower(cell))
    IN  CASE c \in {Name_level, Name_stage, Name_tier} -> "level"
          [] c \in {Name_subject, Name_category, Name_cat} -> "subject"
          [] c \in {Name_question, Name_q} -> "question"
          [] c \in {Name_answer, Name_a} -> "answer"
          [] OTHER -> "none"

ColumnsNamed(line) == {LogicalColumn(line[k]) : k \in 1..Len(line)} \ {"none"}

IsFullHeader(line) ==
    ColumnsNamed(line) = {"level", "subject", "question", "answer"}

IsPartialHeader(line) == ColumnsNamed(line) # {} /\ ~IsFullHeader(line)

CanonicalHeader == <<Name_level, Name_subject, Name_question, Name_answer>>

ColumnIndex(line, column) ==
    CHOOSE k \in 1..Len(line) :
        /\ LogicalColumn(line[k]) = column
        /\ \A j \in 1..(k - 1) : LogicalColumn(line[j]) # column

\* The same data under the canonical header, columns in canonical order
Canonical(table) ==
    IF IsFullHeader(table[1])
    THEN <<CanonicalHeader>> \o
         [k \in 1..(Len(table) - 1) |->
            LET r == table[k + 1]
                cell(column) ==
                    IF ColumnIndex(table[1], column) <= Len(r)
                    THEN r[ColumnIndex(table[1], column)]
                    ELSE <<>>
            IN  IF r = <<>> \/ r = << <<" ">> >>
                THEN r
                ELSE <<cell("level"), cell("subject"),
                       cell("question"), cell("answer")>>]
    ELSE <<CanonicalHeader>> \o table

\* The sniffer found the header the file has, or none where it has none
HeaderRecognised ==
    impl = "legacy" => (has_header <=> IsFullHeader(csv_file[1]))

\* C14 (as claimed): a file whose header names the four columns by any
\* alias, in any order, and a file without a header whose columns are in
\* the fixed order, load as the same data under the canonical header does
\* (files with at least one line that is not blank).
C14_HeaderAliases ==
    (/\ result.kind # "none"
     /\ WithoutBlankLines(csv_file) # <<>>
     /\ ~IsPartialHeader(csv_file[1])
     /\ HeaderRecognised)
    => result = LoadFrom(impl, Canonical(csv_file), TRUE)

\* C15 (as claimed): a file whose header names some but not all of the
\* columns, and a file without a non-blank line, make load raise a
\* validation error; no card list is returned and nothing is rendered.
C15_SchemaErrorRaised ==
    (/\ result.kind # "none"
     /\ \/ WithoutBlankLines(csv_file) = <<>>
        \/ /\ csv_file # <<>>
           /\ IsPartialHeader(csv_file[1])
           /\ impl = "legacy" => has_header)
    => /\ result.kind \in {"Empty", "MissingColumn"}
       /\ pc = "failed"
       /\ canvas = NoCanvas

\* What C13, C14 and C15 say, of load_cards of card_generator.py alone
LegacyReadsAsClaimed ==
    impl = "legacy" =>
        C13_BlankRowsDropped /\ C14_HeaderAliases /\ C15_SchemaErrorRaised

----------------------------------------------------------------------------
(* render_pdf called on a list of cards and a grid                         *)

\* The texts of the sample cards: none at one slot of the card, elsewhere
\* a short one, two words of different widths, or three wide words
SampleText(tag, n, k) ==
    IF k = ((n - 1) % QuestionsPerCard) + 1
    THEN <<>>
    ELSE CASE k % 3 = 1 -> <<tag, ToString(n)>>
           [] k % 3 = 2 -> <<"a", "a", " ", "W", "W">>
           [] OTHER -> <<"W", "W", " ", "W", "W", " ", "W", "W">>

\* Card n of a render: six subjects that differ from card to card, no
\* question text at one slot and no answer text at the next
SampleCard(n) ==
    Card(<<"L">>,
         [k \in 1..QuestionsPerCard |->
             Question(<<SubjectCodes[((k + n) % QuestionsPerCard) + 1]>>,
                      SampleText("Q", n, k), SampleText("A", n + 1, k))])

\* A legacy row that renders everywhere, and the rows that do not: a
\* question or an answer of three wide words, each field above its
\* ceiling, a blank answer, and a blank level next to a long answer.
LegacyKinds ==
    {"wideQ", "wideA", "longL", "longS", "longQ", "longA", "blankA",
     "blankLlongA"}

SampleRow(kind) ==
    LET wide == <<"W", "W", " ", "W", "W", " ", "W", "W">>
    IN  CardRow(CASE kind = "longL" -> <<"L", "L", "L">>
                  [] kind = "blankLlongA" -> <<>>
                  [] OTHER -> <<"L">>,
                CASE kind = "longS" -> <<"C", "C">>
                  [] OTHER -> <<"C">>,
                CASE kind = "wideQ" -> wide
                  [] kind = "longQ" -> wide \o <<"W">>
                  [] OTHER -> <<"a", "a", " ", "a", "a">>,
                CASE kind = "wideA" -> wide
                  [] kind \in {"longA", "blankLlongA"} -> wide \o <<"W">>
                  [] kind = "blankA" -> <<>>
                  [] OTHER -> <<"a">>)

\* n rows, all plain but at most two
IsLegacyInput(rs) ==
    \E n \in 0..MaxCards :
        \/ rs = [k \in 1..n |-> SampleRow("plain")]
        \/ \E p \in 1..n, kind \in LegacyKinds :
              rs = [k \in 1..n |->
                       IF k = p THEN SampleRow(kind) ELSE SampleRow("plain")]
        \/ \E p \in 1..n, q \in 1..n, kp \in LegacyKinds, kq \in LegacyKinds :
              /\ p < q
              /\ rs = [k \in 1..n |->
                          CASE k = p -> SampleRow(kp)
                            [] k = q -> SampleRow(kq)
                            [] OTHER -> SampleRow("plain")]

\* The margin of LayoutConfig(c, r), and one that leaves no usable width
Margins == {2, 20}

InitRender ==
    /\ csv_rows = <<>>
    /\ result = NotRun
    /\ \E c \in 1..MaxGrid, r \in 1..MaxGrid, m \in Margins :
          cfg = [LayoutConfig(c, r) EXCEPT !.margin = m]
    /\ impl \in {"v2", "legacy"}
    /\ IF impl = "v2"
       THEN \E n \in 0..MaxCards : cards = [k \in 1..n |-> SampleCard(k)]
       ELSE IsLegacyInput(cards)
    /\ pc = "render"
    /\ batch_start = 0
    /\ idx = 0
    /\ canvas = NoCanvas
    /\ error = NoError
    /\ req = NoRequest
    /\ files = {}
    /\ requests = <<>>
    /\ tmpdir = EmptyDir
    /\ csv_file = <<>>
    /\ has_header = FALSE
    /\ wrap_in = NoText
    /\ wrap_out = <<>>

NextRender == NextRenderV2 \/ NextLegacy

SpecRender == InitRender /\ [][NextRender]_vars

----------------------------------------------------------------------------
(* Claims about render_pdf                                                 *)

CeilDiv(a, b) == (a + b - 1) \div b

NumberOfBatches == CeilDiv(Len(cards), cfg.cols * cfg.rows)

\* The batch (1-based) a card of the list belongs to, and its place in it
BatchOf(n) == ((n - 1) \div (cfg.cols * cfg.rows)) + 1

PlaceInBatch(n) == (n - 1) % (cfg.cols * cfg.rows)

LogicalCol(n) == PlaceInBatch(n) % cfg.cols

LogicalRow(n) == PlaceInBatch(n) \div cfg.cols

CardsOfBatch(b) == {n \in 1..Len(cards) : BatchOf(n) = b}

CardsOn(page) == {page[k].card : k \in 1..Len(page)}

SidesOn(page) == {page[k].side : k \in 1..Len(page)}

AllPages == canvas.pages \o <<canvas.page>>

AnswerOps ==
    {op \in UNION {{AllPages[p][k] : k \in 1..Len(AllPages[p])}
                      : p \in 1..Len(AllPages)} : op.side = "answers"}

\* C2 (as claimed): a request with print_mode single_sided and a valid
\* upload is answered with a document of one page per batch, none of them
\* an answer page.
C2_SingleSidedOnePagePerBatch ==
    (/\ req.pc = "done"
     /\ req.upload = "ok"
     /\ req.print_mode = "single_sided"
     /\ result.kind = "ok")
    => /\ req.status = 200
       /\ Len(req.document) = NumberOfBatches
       /\ \A p \in 1..Len(req.document) :
             SidesOn(req.document[p]) = {"questions"}

\* C3: card_generator_v2.render_pdf (the long-edge layout) draws the answers
\* of the card at logical (col, row) at slot (col, rows - 1 - row), rotated
\* by 180 degrees about the centre of that same slot.
C3_LongEdgeBackSlot ==
    impl = "v2" =>
        \A op \in AnswerOps :
            /\ op.col = LogicalCol(op.card)
            /\ op.row = (cfg.rows - 1) - LogicalRow(op.card)
            /\ op.rot = 180
            /\ op.about = [col |-> op.col, row |-> op.row]

\* A back page with a card of the second row drawn on it, on a grid of at
\* least two rows and two columns.
C3_Witness ==
    /\ impl = "v2"
    /\ cfg.rows > 1
    /\ cfg.cols > 1
    /\ \E op \in AnswerOps : LogicalRow(op.card) = 1 /\ LogicalCol(op.card) = 1

C18_GridFillsPage ==
    LET g == grid_geometry(cfg)
    IN  /\ g.card_w.den > 0 /\ g.card_h.den > 0
        /\ g.card_w.num * cfg.cols
              + (cfg.gutter_x * (cfg.cols - 1) + 2 * cfg.margin) * g.card_w.den
           = cfg.page_w * g.card_w.den
        /\ g.card_h.num * cfg.rows
              + (cfg.gutter_y * (cfg.rows - 1) + 2 * cfg.margin) * g.card_h.den
           = cfg.page_h * g.card_h.den
        /\ g.page_w = cfg.page_w
        /\ g.page_h = cfg.page_h

\* A render on a grid of 3 columns and 2 rows, whose card width is not a
\* whole number, has computed its geometry and drawn a card.
C18_Witness ==
    /\ cfg.cols = 3
    /\ cfg.rows = 2
    /\ cfg.margin = 2
    /\ grid_geometry(cfg).card_w = Frac(34, 3)
    /\ canvas.page # <<>>

\* usable_w <= 0 or usable_h <= 0
Degenerate ==
    \/ cfg.page_w - 2 * cfg.margin - cfg.gutter_x * (cfg.cols - 1) <= 0
    \/ cfg.page_h - 2 * cfg.margin - cfg.gutter_y * (cfg.rows - 1) <= 0

\* C19 (as claimed): under a configuration without usable width or height
\* render stops before anything is drawn: no card is drawn, no page is
\* emitted and nothing is saved.
C19_DegenerateRejected ==
    Degenerate =>
        /\ canvas.page = <<>>
        /\ canvas.pages = <<>>
        /\ ~canvas.saved

----------------------------------------------------------------------------
(* render_pdf and the request handler side by side                         *)

InitRenderOrApp == InitRender \/ InitApp

NextRenderOrApp == NextRender \/ NextApp

SpecRenderOrApp == InitRenderOrApp /\ [][NextRenderOrApp]_vars

\* Some row of a legacy render has a field above its ceiling or blank
LengthInvalid ==
    \E n \in 1..Len(cards) :
        \/ Len(cards[n].level) > cfg.max_chars_level
        \/ Len(cards[n].subject) > cfg.max_chars_subject
        \/ Len(cards[n].question) > cfg.max_chars_question
        \/ Len(cards[n].answer) > cfg.max_chars_answer
        \/ <<>> \in {cards[n].level, cards[n].subject,
                     cards[n].question, cards[n].answer}

\* An operation was given up in the middle of a card by the fit check
Aborted(page) == {k \in 1..Len(page) : page[k].side = "aborted"}

\* C20: a render that fails is never saved and draws nothing after the
\* failure: rows that fail the length validation leave the canvas untouched;
\* a card given up by the fit check is the last thing on the unfinished
\* page; an error and a saved document exclude each other; and a request
\* whose generation raised ends with an error status, without a document
\* and without its temporary files.
C20_FailureAbortsRender ==
    /\ (impl = "legacy" /\ LengthInvalid) =>
          (canvas = NoCanvas /\ pc \in {"render", "failed"})
    /\ error # NoError => (pc = "failed" /\ ~canvas.saved)
    /\ pc = "failed" => ~canvas.saved
    /\ \A p \in 1..Len(canvas.pages) : Aborted(canvas.pages[p]) = {}
    /\ Aborted(canvas.page) # {} =>
          /\ Aborted(canvas.page) = {Len(canvas.page)}
          /\ pc = "failed"
          /\ error # NoError
    /\ canvas.saved => (error = NoError /\ pc = "done")
    /\ (req.pc = "done" /\ req.exception # "none") =>
          /\ req.status \in {400, 500}
          /\ req.document = <<>>
          /\ files = {}
    /\ req.status = 200 => req.exception = "none"

\* The fit check gave up an answer on the back page, after the front page
\* was emitted and an earlier answer drawn.
C20_Witness ==
    /\ pc = "failed"
    /\ error.kind = "does not fit"
    /\ Len(canvas.pages) = 1
    /\ Len(canvas.page) >= 2
    /\ canvas.page[Len(canvas.page)].side = "aborted"
    /\ canvas.page[1].side = "answers"

\* The cell of the front side that lies behind a cell of the back side when
\* a portrait sheet is flipped about its long (vertical) edge, and when it
\* is flipped about its short (horizontal) edge.
BehindLongEdge(col, row) == [col |-> (cfg.cols - 1) - col, row |-> row]

BehindShortEdge(col, row) == [col |-> col, row |-> (cfg.rows - 1) - row]

\* C5 (as claimed): with the sheet flipped about the long edge for the
\* long-edge layout (v2) and about the short edge for the short-edge layout
\* (legacy), the cell every card's answers were drawn in lies behind the
\* cell its questions were drawn in.
C5_FlipAligned ==
    \A op \in AnswerOps :
        LET behind == IF impl = "v2"
                      THEN BehindLongEdge(op.col, op.row)
                      ELSE BehindShortEdge(op.col, op.row)
        IN  /\ behind.col = LogicalCol(op.card)
            /\ behind.row = LogicalRow(op.card)

\* C6: the back-slot maps are involutions: reversing the column twice, or
\* the row twice, gives the slot back, for every slot of the grid and for
\* the slot every drawn card went to, and two half turns give rotation 0.
C6_TransformsAreInvolutions ==
    /\ \A col \in 0..(cfg.cols - 1) :
          mirrored_col(cfg, mirrored_col(cfg, col)) = col
    /\ \A row \in 0..(cfg.rows - 1) :
          mirrored_row(cfg, mirrored_row(cfg, row)) = row
    /\ rotate_180(rotate_180(0)) = 0
    /\ \A op \in AnswerOps :
          IF impl = "v2"
          THEN /\ mirrored_row(cfg, op.row) = LogicalRow(op.card)
               /\ rotate_180(op.rot) = 0
          ELSE mirrored_col(cfg, op.col) = LogicalCol(op.card)

\* Both layouts have drawn a card away from its own slot.
C6_Witness ==
    \E op \in AnswerOps :
        \/ impl = "v2" /\ op.row # LogicalRow(op.card) /\ op.rot = 180
        \/ impl = "legacy" /\ op.col # LogicalCol(op.card)

----------------------------------------------------------------------------
(* app.py under a server that handles two requests at once: /api/generate  *)
(* and /api/generate-ai, one step per access to the temporary directory    *)

RequestIds == {1, 2}

\* The topic field of a /api/generate-ai request, after strip()
Topics == {"", "maps", "sea life", "sea_life"}

\* werkzeug's secure_filename: white space becomes an underscore
secure_filename(name) == IF name = "sea life" THEN "sea_life" ELSE name

\* os.path.join(tempfile.gettempdir(),
\*              f"ai_cards_{secure_filename(topic)}.csv")
AiCsvPath(topic) == <<"ai_cards_", secure_filename(topic), ".csv">>

\* os.path.join(tempfile.gettempdir(),
\*              f"ai_trivia_cards_{secure_filename(topic)}.pdf")
AiPdfPath(topic) == <<"ai_trivia_cards_", secure_filename(topic), ".pdf">>

\* The random parts of the names NamedTemporaryFile draws from
TempNames == {"k3x", "p7q"}

\* tempfile.NamedTemporaryFile(suffix=..., delete=False).name
TempPath(name, suffix) == <<"tmp", name, suffix>>

NoPath == <<>>

\* A file whose content was made for request r: the CSV uploaded with r or
\* generated for r, or the PDF of the cards r loaded
FileOf(kind, r) == [kind |-> kind, of |-> r]

\* open(path, 'w') and write, or the write to a new NamedTemporaryFile
WriteFile(dir, path, content) ==
    [p \in DOMAIN dir \cup {path} |-> IF p = path THEN content ELSE dir[p]]

\* try: os.unlink(path); except: pass     (also when the name is unbound)
unlink(dir, path) == [p \in DOMAIN dir \ {path} |-> dir[p]]

NewRequest(route, upload, topic, print_mode, provider) ==
    [route |-> route, upload |-> upload, topic |-> topic,
     print_mode |-> print_mode, provider |-> provider, pc |-> "start",
     csv_path |-> NoPath, pdf_path |-> NoPath, loaded |-> 0,
     exception |-> "none", status |-> 0, document |-> 0]

\* return jsonify(...), status
Answer(request, status) == [request EXCEPT !.pc = "done", !.status = status]

\* raise, caught by the handler's outer except clauses
Raise(request, exception, status) ==
    [request EXCEPT !.pc = "done", !.exception = exception,
                    !.status = status]

\* The variables of the programs that run alone
alone ==
    <<csv_rows, result, cfg, impl, cards, pc, batch_start, idx, canvas, error,
      req, files, csv_file, has_header, wrap_in, wrap_out>>

\* generate_cards, lines 81-97: the checks on the uploaded file
GenCheckUpload(r) ==
    /\ requests[r].route = "generate"
    /\ requests[r].pc = "start"
    /\ requests' = [requests EXCEPT ![r] =
          IF @.upload = "ok"
          THEN [@ EXCEPT !.pc = "tempfiles"]
          ELSE Answer(@, 400)]
    /\ UNCHANGED <<tmpdir, alone>>

\* generate_cards, lines 100-107: two new files under names that no file
\* of the directory has, the first holding the upload
GenCreateTempFiles(r) ==
    /\ requests[r].route = "generate"
    /\ requests[r].pc = "tempfiles"
    /\ \E a, b \in TempNames :
          /\ TempPath(a, ".csv") \notin DOMAIN tmpdir
          /\ TempPath(b, ".pdf") \notin DOMAIN tmpdir
          /\ tmpdir' = WriteFile(WriteFile(tmpdir, TempPath(a, ".csv"),
                                           FileOf("csv", r)),
                                 TempPath(b, ".pdf"), FileOf("empty", r))
          /\ requests' = [requests EXCEPT ![r] =
                [@ EXCEPT !.pc = "print_mode",
                          !.csv_path = TempPath(a, ".csv"),
                          !.pdf_path = TempPath(b, ".pdf")]]
    /\ UNCHANGED alone

\* generate_cards, lines 111-113
GenCheckPrintMode(r) ==
    /\ requests[r].route = "generate"
    /\ requests[r].pc = "print_mode"
    /\ requests' = [requests EXCEPT ![r] =
          IF GetPrintMode(@.print_mode) \in PrintModes
          THEN [@ EXCEPT !.pc = "load"]
          ELSE Answer(@, 400)]
    /\ UNCHANGED <<tmpdir, alone>>

\* generate_cards, line 116: load_cards_from_csv(csv_path) opens the file
\* at the path; the except clause of lines 137-147 unlinks both paths
GenLoad(r) ==
    /\ requests[r].route = "generate"
    /\ requests[r].pc = "load"
    /\ IF requests[r].csv_path \in DOMAIN tmpdir
       THEN /\ requests' = [requests EXCEPT ![r] =
                  [@ EXCEPT !.pc = "render",
                            !.loaded =
                                tmpdir[requests[r].csv_path].of]]
            /\ tmpdir' = tmpdir
       ELSE /\ requests' = [requests EXCEPT ![r] =
                  Raise(@, "FileNotFoundError", 500)]
            /\ tmpdir' = unlink(unlink(tmpdir, requests[r].csv_path),
                                requests[r].pdf_path)
    /\ UNCHANGED alone

\* generate_cards, lines 117-167: render_pdf(..., print_mode=print_mode),
\* then send_file and the unlink of the CSV, or the except clause
GenRender(r) ==
    /\ requests[r].route = "generate"
    /\ requests[r].pc = "render"
    /\ IF ~AcceptsKeywords(render_pdf_parameters, {"print_mode"})
       THEN /\ requests' = [requests EXCEPT ![r] = Raise(@, "TypeError", 500)]
            /\ tmpdir' = unlink(unlink(tmpdir, requests[r].csv_path),
                                requests[r].pdf_path)
       ELSE /\ requests' = [requests EXCEPT ![r] =
                  [Answer(@, 200) EXCEPT !.document = requests[r].loaded]]
            /\ tmpdir' = unlink(WriteFile(tmpdir, requests[r].pdf_path,
                                          FileOf("pdf", requests[r].loaded)),
                                requests[r].csv_path)
    /\ UNCHANGED alone

\* generate_with_ai, lines 174-191: the checks on the fields (level,
\* api_key and num_cards pass them)
AiValidate(r) ==
    /\ requests[r].route = "generate-ai"
    /\ requests[r].pc = "start"
    /\ requests' = [requests EXCEPT ![r] =
          IF @.topic = "" \/ @.print_mode \notin PrintModes
          THEN Answer(@, 400)
          ELSE [@ EXCEPT !.pc = "ask"]]
    /\ UNCHANGED <<tmpdir, alone>>

\* generate_with_ai, lines 194-203: generate_questions returns the CSV
\* text or raises
AiGenerateQuestions(r) ==
    /\ requests[r].route = "generate-ai"
    /\ requests[r].pc = "ask"
    /\ requests' = [requests EXCEPT ![r] =
          IF @.provider = "answers"
          THEN [@ EXCEPT !.pc = "write"]
          ELSE Raise(@, "Exception", 500)]
    /\ UNCHANGED <<tmpdir, alone>>

\* generate_with_ai, lines 206-208: the CSV text is written to the path
\* made from the topic
AiWriteCsv(r) ==
    /\ requests[r].route = "generate-ai"
    /\ requests[r].pc = "write"
    /\ tmpdir' = WriteFile(tmpdir, AiCsvPath(requests[r].topic),
                           FileOf("csv", r))
    /\ requests' = [requests EXCEPT ![r] =
          [@ EXCEPT !.pc = "load",
                    !.csv_path = AiCsvPath(requests[r].topic)]]
    /\ UNCHANGED alone

\* generate_with_ai, line 212: load_cards_from_csv(csv_path); in the
\* except clause of lines 232-242 pdf_path is not bound yet
AiLoad(r) ==
    /\ requests[r].route = "generate-ai"
    /\ requests[r].pc = "load"
    /\ IF requests[r].csv_path \in DOMAIN tmpdir
       THEN /\ requests' = [requests EXCEPT ![r] =
                  [@ EXCEPT !.pc = "render",
                            !.loaded =
                                tmpdir[requests[r].csv_path].of]]
            /\ tmpdir' = tmpdir
       ELSE /\ requests' = [requests EXCEPT ![r] =
                  Raise(@, "FileNotFoundError", 500)]
            /\ tmpdir' = unlink(tmpdir, requests[r].csv_path)
    /\ UNCHANGED alone

\* generate_with_ai, lines 213-253: the PDF path made from the topic,
\* render_pdf(..., print_mode=print_mode), then send_file and the unlink
\* of the CSV, or the except clause
AiRender(r) ==
    /\ requests[r].route = "generate-ai"
    /\ requests[r].pc = "render"
    /\ LET pdf_path == AiPdfPath(requests[r].topic)
       IN  IF ~AcceptsKeywords(render_pdf_parameters, {"print_mode"})
           THEN /\ requests' = [requests EXCEPT ![r] =
                      [Raise(@, "TypeError", 500) EXCEPT
                          !.pdf_path = pdf_path]]
                /\ tmpdir' = unlink(unlink(tmpdir, requests[r].csv_path),
                                    pdf_path)
           ELSE /\ requests' = [requests EXCEPT ![r] =
                      [Answer(@, 200) EXCEPT !.pdf_path = pdf_path,
                                             !.document = requests[r].loaded]]
                /\ tmpdir' = unlink(WriteFile(tmpdir, pdf_path,
                                        FileOf("pdf", requests[r].loaded)),
                                    requests[r].csv_path)
    /\ UNCHANGED alone

NextServer ==
    \E r \in RequestIds :
        \/ GenCheckUpload(r)
        \/ GenCreateTempFiles(r)
        \/ GenCheckPrintMode(r)
        \/ GenLoad(r)
        \/ GenRender(r)
        \/ AiValidate(r)
        \/ AiGenerateQuestions(r)
        \/ AiWriteCsv(r)
        \/ AiLoad(r)
        \/ AiRender(r)

\* The requests that may arrive
Arrivals ==
    {NewRequest("generate", u, "", m, "none") :
        u \in {"ok", "notcsv"}, m \in {"absent", "booklet"}}
    \cup
    {NewRequest("generate-ai", "none", t, m, a) :
        t \in Topics, m \in {"duplex_long", "booklet"},
        a \in {"answers", "raises"}}

InitServer ==
    /\ requests \in [RequestIds -> Arrivals]
    /\ tmpdir = EmptyDir
    /\ csv_rows = <<>>
    /\ result = NotRun
    /\ cfg = LayoutConfig(DefaultCols, DefaultRows)
    /\ impl = "v2"
    /\ cards = <<>>
    /\ pc = "serve"
    /\ batch_start = 0
    /\ idx = 0
    /\ canvas = NoCanvas
    /\ error = NoError
    /\ req = NoRequest
    /\ files = {}
    /\ csv_file = <<>>
    /\ has_header = FALSE
    /\ wrap_in = NoText
    /\ wrap_out = <<>>

SpecServer == InitServer /\ [][NextServer]_vars

----------------------------------------------------------------------------
(* Claims about the temporary files of a request                           *)

\* C21 (as claimed): when a request is over, on whatever path it ended,
\* none of the temporary files its handler created exists any more.
C21_TempFilesDeleted ==
    req.pc = "done" => files = {}

\* The paths a request is using: those its handler has bound and not yet
\* given up by answering
PathsOf(r) ==
    IF requests[r].pc = "done"
    THEN {}
    ELSE {requests[r].csv_path, requests[r].pdf_path} \ {NoPath}

\* What C22 says, of the requests to /api/generate alone
GenerateRequestsIsolated ==
    \A r \in RequestIds :
        requests[r].route = "generate" =>
            /\ \A b \in RequestIds :
                  b # r => PathsOf(r) \cap PathsOf(b) = {}
            /\ requests[r].pc \in {"print_mode", "load", "render"} =>
                  /\ requests[r].csv_path \in DOMAIN tmpdir
                  /\ tmpdir[requests[r].csv_path].of = r
            /\ requests[r].loaded \in {0, r}
            /\ requests[r].document \in {0, r}

\* C22 (as claimed): two requests in flight never use a path in common;
\* the CSV a request wrote is still there with the request's own content
\* while the request loads and renders (no other request overwrote or
\* deleted it); and the cards a request loads and answers with are its own.
C22_RequestsIsolated ==
    /\ \A a, b \in RequestIds :
          a # b => PathsOf(a) \cap PathsOf(b) = {}
    /\ \A r \in RequestIds :
          requests[r].pc \in {"load", "render"} =>
              /\ requests[r].csv_path \in DOMAIN tmpdir
              /\ tmpdir[requests[r].csv_path].of = r
    /\ \A r \in RequestIds :
          /\ requests[r].loaded \in {0, r}
          /\ requests[r].document \in {0, r}

----------------------------------------------------------------------------
(* Claims about the validation pass of card_generator.py                   *)

FieldNames == <<"level", "subject", "question", "answer">>

Ceiling(name) ==
    CASE name = "level" -> cfg.max_chars_level
      [] name = "subject" -> cfg.max_chars_subject
      [] name = "question" -> cfg.max_chars_question
      [] OTHER -> cfg.max_chars_answer

TooLongFields(row) ==
    {k \in 1..4 : Len(row[FieldNames[k]]) > Ceiling(FieldNames[k])}

BlankFields(row) == {k \in 1..4 : row[FieldNames[k]] = <<>>}

Offends(row) == TooLongFields(row) # {} \/ BlankFields(row) # {}

Offenders == {n \in 1..Len(cards) : Offends(cards[n])}

ValidationErrors == {"too long", "blank"}

\* The pass has run, and what it decided and left of the canvas
ValidationRan == impl = "legacy" /\ pc # "render"

FailsOnFirstOffender ==
    /\ error.kind \in ValidationErrors <=> Offenders # {}
    /\ error.kind \in ValidationErrors =>
          /\ error.row \in Offenders
          /\ \A n \in Offenders : error.row <= n
          /\ pc = "failed"
          /\ canvas = NoCanvas

\* C23 (as claimed): the validation pass fails exactly when some row has a
\* field above its ceiling or blank, for the first such row, and the error
\* names that row's 1-based number and an offending field of it; nothing
\* was drawn.
C23_ValidationNamesField ==
    ValidationRan =>
        /\ FailsOnFirstOffender
        /\ error.kind \in ValidationErrors =>
              \E k \in TooLongFields(cards[error.row])
                          \cup BlankFields(cards[error.row]) :
                  error.field = FieldNames[k]

\* C23 (amended): the same, but the error names a field only when it is a
\* length error, the first field of the row above its ceiling in the order
\* level, subject, question, answer; a row none of whose fields is too long
\* but one of which is blank gives an error that names the row alone.
C23_ValidationNamesRow ==
    ValidationRan =>
        /\ FailsOnFirstOffender
        /\ error.kind = "too long" =>
              \E k \in TooLongFields(cards[error.row]) :
                  /\ error.field = FieldNames[k]
                  /\ \A j \in TooLongFields(cards[error.row]) : k <= j
        /\ error.kind = "blank" =>
              /\ TooLongFields(cards[error.row]) = {}
              /\ BlankFields(cards[error.row]) # {}
              /\ error.field \notin SetOf(FieldNames)

\* Two rows offend; the first of them has a blank level and a long answer
\* and is reported for the answer.
C23_Witness ==
    /\ ValidationRan
    /\ Cardinality(Offenders) = 2
    /\ error.kind = "too long"
    /\ error.field = "answer"
    /\ error.row > 1
    /\ cards[error.row].level = <<>>

----------------------------------------------------------------------------
(* Claims about batches and slots                                          *)

\* The front page of batch b is page 2b - 1 of the document, the unfinished
\* page included
FrontPageIndices == {p \in 1..Len(AllPages) : p % 2 = 1}

FrontOps(page) == {k \in 1..Len(page) : page[k].side = "questions"}

\* C24: batch b holds the cards (b-1)*cols*rows + 1 .. min(b*cols*rows, n),
\* at least one; its front page shows its k-th card (from 0) as the k-th
\* drawing, at slot (k mod cols, k div cols), so in input order; no slot of
\* any page holds two cards; and a saved document shows every card exactly
\* once on a front page.
C24_BatchesInSlotOrder ==
    /\ \A p \in FrontPageIndices :
          \A k \in 1..Len(AllPages[p]) :
              LET op == AllPages[p][k]
              IN  /\ op.card = ((p - 1) \div 2) * cfg.cols * cfg.rows + k
                  /\ op.card \in 1..Len(cards)
                  /\ k <= cfg.cols * cfg.rows
                  /\ op.col = (k - 1) % cfg.cols
                  /\ op.row = (k - 1) \div cfg.cols
                  /\ op.side \in {"questions", "aborted"}
    /\ \A p \in FrontPageIndices \cap (1..Len(canvas.pages)) :
          /\ Len(AllPages[p]) >= 1
          /\ Len(AllPages[p]) =
                Min(cfg.cols * cfg.rows,
                    Len(cards) - ((p - 1) \div 2) * cfg.cols * cfg.rows)
    /\ \A p \in 1..Len(AllPages) :
          \A j, k \in 1..Len(AllPages[p]) :
              (j # k) =>
                  \/ AllPages[p][j].col # AllPages[p][k].col
                  \/ AllPages[p][j].row # AllPages[p][k].row
    /\ canvas.saved =>
          \A n \in 1..Len(cards) :
              Cardinality({<<p, k>> \in FrontPageIndices \X (1..MaxCards) :
                              /\ k \in FrontOps(AllPages[p])
                              /\ AllPages[p][k].card = n}) = 1

\* Five cards on a grid of 2 by 2 were saved: the third card of the first
\* batch stands in the second row, the fifth card alone on the third page.
C24_Witness ==
    /\ canvas.saved
    /\ impl = "v2"
    /\ cfg.cols = 2
    /\ cfg.rows = 2
    /\ Len(cards) = 5
    /\ canvas.pages[1][3].row = 1
    /\ canvas.pages[1][3].col = 0
    /\ Len(canvas.pages[3]) = 1
    /\ canvas.pages[3][1].card = 5

----------------------------------------------------------------------------
(* Claims about the six rows of a card                                     *)

\* The drawings of the six-question layout, on all pages
AllOps ==
    UNION {{AllPages[p][k] : k \in 1..Len(AllPages[p])}
              : p \in 1..Len(AllPages)}

RowOps == {op \in AllOps : op.side \in {"questions", "answers"}}

\* The text of slot j (from 1) of the card a drawing shows, on its side
TextOfSlot(op, j) ==
    IF op.side = "questions"
    THEN cards[op.card].questions[j].text
    ELSE cards[op.card].questions[j].answer

\* The width left of a card for the text of a row
RowTextWidth ==
    Frac((cfg.page_w - 2 * cfg.margin - cfg.gutter_x * (cfg.cols - 1))
             - cfg.cols * (2 * cfg.padding + cfg.badge_w + cfg.badge_margin),
         cfg.cols)

WrappedText(op, j) ==
    wrap_text(TextOfSlot(op, j), cfg.font_name, cfg.font_size_body,
              RowTextWidth)

\* The rows drawn for slot j of a drawing, found by the badge's subject
MarksOfSlot(op, j) ==
    {m \in 1..Len(op.marks) :
        op.marks[m].subject = cards[op.card].questions[j].subject}

\* C25: in the six-question layout a row never draws more than 2 lines; a
\* text that wraps to more than 2 lines is drawn as exactly its first 2
\* wrapped lines, a shorter one in full; and the render raises no error.
C25_TwoLinesPerRow ==
    impl = "v2" =>
        /\ error = NoError
        /\ pc # "failed"
        /\ \A op \in RowOps :
              /\ \A m \in 1..Len(op.marks) : Len(op.marks[m].lines) <= 2
              /\ \A j \in 1..Len(cards[op.card].questions) :
                    \A m \in MarksOfSlot(op, j) :
                        LET lines == WrappedText(op, j)
                        IN  /\ Len(lines) > 2 =>
                                  op.marks[m].lines = <<lines[1], lines[2]>>
                            /\ Len(lines) <= 2 => op.marks[m].lines = lines

\* A saved render drew a row whose text wraps to 3 lines as its first two,
\* and a row whose text wraps to 2 lines in full.
C25_Witness ==
    /\ impl = "v2"
    /\ canvas.saved
    /\ \E op \in RowOps :
          /\ \E j \in 1..6 :
                /\ Len(WrappedText(op, j)) = 3
                /\ \E m \in MarksOfSlot(op, j) :
                      op.marks[m].lines = << <<"W", "W">>, <<"W", "W">> >>
          /\ \E j \in 1..6 :
                /\ Len(WrappedText(op, j)) = 2
                /\ \E m \in MarksOfSlot(op, j) :
                      op.marks[m].lines = << <<"a", "a">>, <<"W", "W">> >>

\* C26: a slot without text gets no badge and no text; every other slot j
\* (from 0) gets exactly one badge, at band j and in the j-th colour of
\* POSITION_COLORS, whatever its subject and whichever slots were skipped,
\* on the front as on the back; rows are drawn in slot order.
C26_EmptySlotSkipped ==
    impl = "v2" =>
        \A op \in RowOps :
            /\ \A j \in 1..Len(cards[op.card].questions) :
                  IF TextOfSlot(op, j) = <<>>
                  THEN MarksOfSlot(op, j) = {}
                  ELSE /\ Cardinality(MarksOfSlot(op, j)) = 1
                       /\ \A m \in MarksOfSlot(op, j) :
                             /\ op.marks[m].band = j - 1
                             /\ op.marks[m].color =
                                   <<"#FFD700", "#228B22", "#FF69B4",
                                     "#8B4513", "#0066CC", "#FF8C00">>[j]
                             /\ op.marks[m].lines # <<>>
            /\ \A m \in 1..Len(op.marks) :
                  /\ \E j \in 1..Len(cards[op.card].questions) :
                        m \in MarksOfSlot(op, j)
                  /\ \A k \in 1..(m - 1) : op.marks[k].band < op.marks[m].band

\* Both sides of a card were drawn; its third slot has no question and its
\* fourth no answer, so the front shows bands 0, 1, 3, 4, 5 and the back
\* bands 0, 1, 2, 4, 5; another card has another subject at the same band
\* in the same colour.
C26_Witness ==
    /\ impl = "v2"
    /\ \E f \in RowOps, b \in RowOps :
          /\ f.card = b.card
          /\ f.side = "questions"
          /\ b.side = "answers"
          /\ {f.marks[m].band : m \in 1..Len(f.marks)} = {0, 1, 3, 4, 5}
          /\ {b.marks[m].band : m \in 1..Len(b.marks)} = {0, 1, 2, 4, 5}
          /\ \E g \in RowOps :
                /\ g.card # f.card
                /\ g.marks[1].band = f.marks[1].band
                /\ g.marks[1].subject # f.marks[1].subject
                /\ g.marks[1].color = f.marks[1].color

----------------------------------------------------------------------------
(* Claims about the slots of the back page                                 *)

Grid ==
    {[col |-> c, row |-> r] : c \in 0..(cfg.cols - 1), r \in 0..(cfg.rows - 1)}

\* The slot of the back page for a logical slot: rows reversed in
\* card_generator_v2.py (long edge), columns in card_generator.py (short
\* edge)
BackSlot(s) ==
    IF impl = "v2"
    THEN [col |-> s.col, row |-> mirrored_row(cfg, s.row)]
    ELSE [col |-> mirrored_col(cfg, s.col), row |-> s.row]

BackPageIndices == {p \in 1..Len(AllPages) : p % 2 = 0}

\* C27: on every grid the back-slot map of either layout sends the grid
\* into itself, one to one and onto; it is the identity when the reversed
\* dimension is 1; every card of a back page stands at the back slot of
\* its logical slot, no two cards of a page at the same slot, and a
\* finished back page shows every card of its batch exactly once.
C27_BackSlotBijection ==
    /\ \A s \in Grid : BackSlot(s) \in Grid
    /\ \A s, t \in Grid : BackSlot(s) = BackSlot(t) => s = t
    /\ {BackSlot(s) : s \in Grid} = Grid
    /\ ((impl = "v2" /\ cfg.rows = 1) \/ (impl = "legacy" /\ cfg.cols = 1))
          => \A s \in Grid : BackSlot(s) = s
    /\ \A p \in BackPageIndices :
          /\ \A k \in 1..Len(AllPages[p]) :
                LET op == AllPages[p][k]
                IN  /\ [col |-> op.col, row |-> op.row] \in Grid
                    /\ [col |-> op.col, row |-> op.row] =
                          BackSlot([col |-> LogicalCol(op.card),
                                    row |-> LogicalRow(op.card)])
                    /\ \A j \in 1..(k - 1) :
                          [col |-> AllPages[p][j].col,
                           row |-> AllPages[p][j].row]
                              # [col |-> op.col, row |-> op.row]
          /\ p <= Len(canvas.pages) =>
                \A n \in CardsOfBatch(p \div 2) :
                    Cardinality({k \in 1..Len(AllPages[p]) :
                                    AllPages[p][k].card = n}) = 1

\* A finished back page of a grid of one row and three columns shows its
\* three cards at their own slots; and so does one of a grid of one column
\* in the other layout.
C27_Witness ==
    /\ Len(canvas.pages) >= 2
    /\ \/ impl = "v2" /\ cfg.rows = 1 /\ cfg.cols = 3
       \/ impl = "legacy" /\ cfg.cols = 1 /\ cfg.rows = 3
    /\ Len(canvas.pages[2]) = 3
    /\ \A k \in 1..3 :
          /\ canvas.pages[2][k].side = "answers"
          /\ canvas.pages[2][k].col = canvas.pages[1][k].col
          /\ canvas.pages[2][k].row = canvas.pages[1][k].row

----------------------------------------------------------------------------
(* Claims about the position of the cells                                  *)

\* Comparison and difference of fractions with positive denominators
FracLE(a, b) == a.num * b.den <= b.num * a.den

FracLT(a, b) == a.num * b.den < b.num * a.den

FracEq(a, b) == a.num * b.den = b.num * a.den

FracPlus(a, b) == Frac(a.num * b.den + b.num * a.den, a.den * b.den)

Whole(k) == Frac(k, 1)

\* The lower left corner of a slot, from the formulas of the specification
CellX(col) ==
    FracPlus(Whole(cfg.margin + col * cfg.gutter_x),
             Frac(col * (cfg.page_w - 2 * cfg.margin
                             - cfg.gutter_x * (cfg.cols - 1)),
                  cfg.cols))

CellY(row) ==
    FracPlus(Whole(cfg.page_h - cfg.margin - row * cfg.gutter_y),
             Frac(0 - (row + 1) * (cfg.page_h - 2 * cfg.margin
                                       - cfg.gutter_y * (cfg.rows - 1)),
                  cfg.rows))

CardW ==
    Frac(cfg.page_w - 2 * cfg.margin - cfg.gutter_x * (cfg.cols - 1), cfg.cols)

CardH ==
    Frac(cfg.page_h - 2 * cfg.margin - cfg.gutter_y * (cfg.rows - 1), cfg.rows)

\* C28: with positive usable width and height, every cell of the grid lies
\* inside the page within the margins; cells next to each other in a row
\* are exactly gutter_x apart and cells above each other exactly gutter_y,
\* so they do not overlap; y strictly decreases as the row grows; and every
\* card, on front and back pages alike, is drawn at the position of its
\* slot.
C28_CellsInsidePage ==
    ~Degenerate =>
        /\ \A s \in Grid :
              /\ FracLE(Whole(cfg.margin), CellX(s.col))
              /\ FracLE(FracPlus(CellX(s.col), CardW),
                        Whole(cfg.page_w - cfg.margin))
              /\ FracLE(Whole(cfg.margin), CellY(s.row))
              /\ FracLE(FracPlus(CellY(s.row), CardH),
                        Whole(cfg.page_h - cfg.margin))
              /\ s.col + 1 < cfg.cols =>
                    FracEq(FracPlus(FracPlus(CellX(s.col), CardW),
                                    Whole(cfg.gutter_x)),
                           CellX(s.col + 1))
              /\ s.row + 1 < cfg.rows =>
                    /\ FracEq(FracPlus(FracPlus(CellY(s.row + 1), CardH),
                                       Whole(cfg.gutter_y)),
                              CellY(s.row))
                    /\ FracLT(CellY(s.row + 1), CellY(s.row))
        /\ \A op \in AllOps :
              /\ FracEq(op.at.x, CellX(op.col))
              /\ FracEq(op.at.y, CellY(op.row))

\* On a grid of 3 by 3 a front page and part of a back page were drawn,
\* with a card in the last column and one in the last row.
C28_Witness ==
    /\ ~Degenerate
    /\ cfg.cols = 3
    /\ cfg.rows = 3
    /\ Len(canvas.pages) = 1
    /\ canvas.page # <<>>
    /\ \E op \in AllOps : op.col = 2 /\ op.at.x = Frac(80, 3)
    /\ \E op \in AllOps : op.row = 2 /\ op.side = "answers"

----------------------------------------------------------------------------
(* Claims about the graphics state                                         *)

\* C29: between any two cards, and so at every page advance and when the
\* document is saved, no saved graphics state is left on the stack and the
\* current transform is unrotated; every card of a front page was drawn
\* unrotated, also after rotated cards of an earlier back page.
C29_RotationRestored ==
    /\ canvas.stack = <<>>
    /\ canvas.rot = 0
    /\ \A p \in FrontPageIndices :
          \A k \in 1..Len(AllPages[p]) : AllPages[p][k].rot = 0

\* A saved document of two sheets: the cards of the second page were drawn
\* turned by 180 degrees, those of the third page, drawn after them, not.
C29_Witness ==
    /\ impl = "v2"
    /\ canvas.saved
    /\ Len(canvas.pages) = 4
    /\ \A k \in 1..Len(canvas.pages[2]) : canvas.pages[2][k].rot = 180
    /\ canvas.pages[3] # <<>>
    /\ \A k \in 1..Len(canvas.pages[3]) : canvas.pages[3][k].rot = 0
    /\ canvas.stack = <<>>

----------------------------------------------------------------------------
(* Claims about the order of the loader's checks                           *)

\* The chunks of the input, <<level, j>> with j from 0, and those of them
\* that are short or repeat a subject
ChunksOfInput ==
    UNION {{<<level, j>> :
               j \in 0..((Cardinality(RowsOfLevel(level)) + 5) \div 6 - 1)}
              : level \in InputLevels}

IsShort(chunk) == Cardinality(RowsOfChunk(chunk[1], chunk[2])) < 6

Repeats(chunk) ==
    \E a, b \in RowsOfChunk(chunk[1], chunk[2]) :
        a # b /\ SubjectOf(a) = SubjectOf(b)

BadChunks == {chunk \in ChunksOfInput : IsShort(chunk) \/ Repeats(chunk)}

\* Levels in the order they are first seen, chunks of a level in their order
ExaminedBefore(c, d) ==
    \/ FirstRow(c[1]) < FirstRow(d[1])
    \/ c[1] = d[1] /\ c[2] < d[2]

\* C30: a failed load returns no cards and reports one error: the empty
\* subject if any row has one, whatever the chunks are like; otherwise the
\* error of the first short or repeating chunk, levels taken in first-seen
\* order and chunks in order within the level, which is the short-chunk
\* error if the chunk is short, also when it repeats a subject, and else
\* the duplicate-subject error; the load succeeds only without any of them.
C30_ErrorPrecedence ==
    result.kind # "none" =>
        /\ result.kind \in {"ok", "EmptySubject", "Incomplete", "Duplicate"}
        /\ result.kind # "ok" =>
              (result.cards = <<>> /\ cards = <<>> /\ pc = "failed")
        /\ ~NoEmptySubject => result.kind = "EmptySubject"
        /\ (NoEmptySubject /\ BadChunks = {}) => result.kind = "ok"
        /\ (NoEmptySubject /\ BadChunks # {}) =>
              \E chunk \in BadChunks :
                  /\ \A other \in BadChunks :
                        other = chunk \/ ExaminedBefore(chunk, other)
                  /\ result.level = chunk[1]
                  /\ result.card = chunk[2] + 1
                  /\ result.kind =
                        IF IsShort(chunk) THEN "Incomplete" ELSE "Duplicate"

\* The first level seen has a chunk that is short and repeats a subject,
\* a later level has a bad chunk too: the short chunk of the first level
\* is what is reported.
C30_Witness ==
    /\ result.kind = "Incomplete"
    /\ result.level = LevelOf(1)
    /\ Repeats(<<result.level, result.card - 1>>)
    /\ \E chunk \in BadChunks : chunk[1] # result.level

\* A row with an empty subject stands after a full chunk that repeats a
\* subject: the empty subject is what is reported.
C30_WitnessEmptyAfterDuplicate ==
    /\ result.kind = "EmptySubject"
    /\ \E chunk \in ChunksOfInput :
          /\ ~IsShort(chunk)
          /\ Repeats(chunk)
          /\ \A k \in RowsOfChunk(chunk[1], chunk[2]) : SubjectOf(k) # <<>>

====
